---- MODULE Spec2Model ----
(***************************************************************************)
(* Model of mcp-project-structure: the signature extraction engine of      *)
(* src/project-structure/parser.ts (type renderer, export and parent       *)
(* resolvers, function and type signature extractors, procedure-chain      *)
(* detector, tree walker) and the per-file loop of its host tool.          *)
(*                                                                         *)
(* Source text is a TLA+ string; TLC evaluates Len, \o, SubSeq, Head and   *)
(* Tail on strings, so every text operation of the code (endsWith,         *)
(* includes, substring, whitespace collapsing, joins) is computed          *)
(* character by character.                                                 *)
(*                                                                         *)
(* A syntax tree node is a record [kind, name, text, mods, role, kids].    *)
(* kids are the node's children in source order (the order ts.forEachChild *)
(* visits them); role names the property of the parent a child sits in.    *)
(* Declared names and modifiers are attributes of their declaration, not   *)
(* child nodes.  A node reference is the path of child indices from the    *)
(* SourceFile node, so node.parent is the path without its last index.     *)
(***************************************************************************)
EXTENDS Integers, Sequences, FiniteSets, TLC

VARIABLES
    files,              \* the code files of the workspace, as getCodeFiles returned them
    pc,                 \* "idle", "loop" (the handler's loop over files), "visit" (inside parseFile)
    fileIdx,            \* the position of the handler's loop in files
    allSignatures,      \* the handler's aggregated function signatures
    allTypes,           \* the handler's aggregated type signatures
    stack,              \* parseFile: the nodes visit is still to be called on, next first
    currentRouterName,  \* parseFile: the active router name
    signatures,         \* parseFile: the function signatures found so far
    types,              \* parseFile: the type signatures found so far
    visited,            \* history: the nodes visit was called on in this parse, in order
    signaturesAt,       \* history: for each entry of signatures, the node visited when it was pushed
    typesAt,            \* history: for each entry of types, the node visited when it was pushed
    results,            \* history: per file, the results of its latest two parseFile calls
    thrown,             \* history: the files whose parseFile call threw in this run of the loop
    tnode,      \* TypeSpec: the type expression handed to simplifyType
    tdepth,     \* TypeSpec: the depth budget of the latest call
    tout,       \* TypeSpec: the rendering returned by the latest call
    tprev,      \* TypeSpec: the rendering returned at depth tdepth - 1
    blacklist,              \* ScanSpec: the exclusion entries handed to getCodeFiles
    normalizedBlacklist,    \* ScanSpec: getCodeFiles: the entries normalised so far
    ignorePatterns          \* ScanSpec: getCodeFiles: the patterns handed to glob

(***************************************************************************)
(* Bounds                                                                  *)
(***************************************************************************)
MaxTypeNesting == 2     \* structural nesting of the generated type expressions
MaxRenderDepth == 3     \* largest depth budget handed to simplifyType
MaxPreamble == 1        \* router definitions put in front of the statement of a file
MaxFiles == 2           \* files of a workspace of more than one file
MaxBlacklist == 2       \* exclusion entries handed to getCodeFiles

(***************************************************************************)
(* undefined / null of the source.  It is no legal identifier or text.     *)
(***************************************************************************)
Undefined == "<undefined>"

Truthy(s) == s # Undefined /\ s # ""

(***************************************************************************)
(* String operations of the JavaScript runtime used by the code            *)
(***************************************************************************)
Min(a, b) == IF a < b THEN a ELSE b

Max(a, b) == IF a > b THEN a ELSE b

\* s.startsWith(p)
StartsWith(s, p) == Len(p) <= Len(s) /\ SubSeq(s, 1, Len(p)) = p

\* s.endsWith(p)
EndsWith(s, p) == Len(p) <= Len(s) /\ SubSeq(s, Len(s) - Len(p) + 1, Len(s)) = p

\* s.includes(p)
Includes(s, p) ==
    \/ Len(p) = 0
    \/ \E i \in 1..(Len(s) - Len(p) + 1) : SubSeq(s, i, i + Len(p) - 1) = p

\* s.substring(a, b), 0-based, end exclusive, clamped to the string
Substring(s, a, b) == SubSeq(s, Min(Max(a, 0), Len(s)) + 1, Min(Max(b, 0), Len(s)))

\* the character class \s, restricted to the characters source text uses here
IsWhitespace(c) == c \in {" ", "\n", "\t"}

\* the concatenation of a sequence of strings
RECURSIVE Concat(_)
Concat(parts) ==
    IF Len(parts) = 0 THEN ""
    ELSE IF Len(parts) = 1 THEN parts[1]
    ELSE LET half == Len(parts) \div 2
         IN  Concat(SubSeq(parts, 1, half)) \o Concat(SubSeq(parts, half + 1, Len(parts)))

CharAt(s, i) == SubSeq(s, i, i)

\* s.replace(/\s+/g, ' '): every maximal run of whitespace becomes one blank
CollapseWhitespace(s) ==
    Concat([i \in 1..Len(s) |->
        IF IsWhitespace(CharAt(s, i))
        THEN IF i > 1 /\ IsWhitespace(CharAt(s, i - 1)) THEN "" ELSE " "
        ELSE CharAt(s, i)])

\* s.replace(/\n\s*/g, ' '): every line break, with the whitespace that
\* follows it, becomes one blank
CollapseNewlines(s) ==
    LET afterBreak(i) ==
            \E j \in 1..(i - 1) :
                /\ CharAt(s, j) = "\n"
                /\ \A k \in (j + 1)..i : IsWhitespace(CharAt(s, k))
    IN  Concat([i \in 1..Len(s) |->
            IF afterBreak(i) THEN ""
            ELSE IF CharAt(s, i) = "\n" THEN " "
            ELSE CharAt(s, i)])

\* parts.join(sep)
RECURSIVE Join(_, _)
Join(parts, sep) ==
    IF Len(parts) = 0 THEN ""
    ELSE IF Len(parts) = 1 THEN parts[1]
    ELSE parts[1] \o sep \o Join(Tail(parts), sep)

LowerLetters == "abcdefghijklmnopqrstuvwxyz"

UpperLetters == "ABCDEFGHIJKLMNOPQRSTUVWXYZ"

\* c.toUpperCase() for one character
ToUpperCase(c) ==
    IF \E i \in 1..26 : SubSeq(LowerLetters, i, i) = c
    THEN LET i == CHOOSE j \in 1..26 : SubSeq(LowerLetters, j, j) = c
         IN SubSeq(UpperLetters, i, i)
    ELSE c

\* c.toLowerCase() for one character
ToLowerCase(c) ==
    IF \E i \in 1..26 : SubSeq(UpperLetters, i, i) = c
    THEN LET i == CHOOSE j \in 1..26 : SubSeq(UpperLetters, j, j) = c
         IN SubSeq(LowerLetters, i, i)
    ELSE c

(***************************************************************************)
(* Syntax tree nodes                                                       *)
(***************************************************************************)
Node(kind, name, text, mods, kids) ==
    [kind |-> kind, name |-> name, text |-> text, mods |-> mods,
     role |-> "", kids |-> kids]

As(role, node) == [node EXCEPT !.role = role]

NoNode == Node("undefined", "", "", {}, <<>>)

\* the node written with the given source text instead of the canonical layout
WithText(node, text) == [node EXCEPT !.text = text]

Present(node) == node.kind # "undefined"

\* the children of a node that sit in the given property of it
KidsIn(node, role) == SelectSeq(node.kids, LAMBDA k : k.role = role)

\* the single child in the given property, NoNode when the property is unset
KidIn(node, role) ==
    IF KidsIn(node, role) = <<>> THEN NoNode ELSE KidsIn(node, role)[1]

\* s.map(f)
Map(s, f(_)) == [i \in 1..Len(s) |-> f(s[i])]

\* the children list of an optional property: empty when the property is unset
Optional(role, node) == SelectSeq(<<As(role, node)>>, Present)

(***************************************************************************)
(* Type expression nodes                                                   *)
(***************************************************************************)
TypeReference(typeName, typeArguments) ==
    Node("TypeReference", typeName, "", {}, Map(typeArguments, LAMBDA a : As("typeArgument", a)))

ArrayType(elementType) == Node("ArrayType", "", "", {}, <<As("elementType", elementType)>>)

UnionType(ts) == Node("UnionType", "", "", {}, Map(ts, LAMBDA a : As("types", a)))

IntersectionType(ts) == Node("IntersectionType", "", "", {}, Map(ts, LAMBDA a : As("types", a)))

PropertySignature(name, optional, type) ==
    Node("PropertySignature", name, "", IF optional THEN {"?"} ELSE {},
         Optional("type", type))

TypeLiteral(members) == Node("TypeLiteral", "", "", {}, Map(members, LAMBDA a : As("members", a)))

Parameter(name, type) ==
    Node("Parameter", name, "", {}, Optional("type", type))

FunctionType(parameters, type) ==
    Node("FunctionType", "", "", {},
         Map(parameters, LAMBDA a : As("parameters", a)) \o <<As("type", type)>>)

TupleType(elements) == Node("TupleType", "", "", {}, Map(elements, LAMBDA a : As("elements", a)))

ParenthesizedType(type) == Node("ParenthesizedType", "", "", {}, <<As("type", type)>>)

ConditionalType(checkType, extendsType, trueType, falseType) ==
    Node("ConditionalType", "", "", {},
         <<As("checkType", checkType), As("extendsType", extendsType),
           As("trueType", trueType), As("falseType", falseType)>>)

\* mapped types are only ever rendered from their source text
MappedType(rawText) == Node("MappedType", "", rawText, {}, <<>>)

IndexedAccessType(objectType, indexType) ==
    Node("IndexedAccessType", "", "", {},
         <<As("objectType", objectType), As("indexType", indexType)>>)

\* any type node of a kind simplifyType has no case for (keyword, literal,
\* keyof/readonly operator, typeof query, ...), given by its source text
OtherType(rawText) == Node("OtherType", "", rawText, {}, <<>>)

(***************************************************************************)
(* Expression, statement and declaration nodes                             *)
(***************************************************************************)
Identifier(name) == Node("Identifier", name, "", {}, <<>>)

PropertyAccess(expression, name) ==
    Node("PropertyAccessExpression", name, "", {}, <<As("expression", expression)>>)

Call(expression, arguments) ==
    Node("CallExpression", "", "", {},
         <<As("expression", expression)>> \o Map(arguments, LAMBDA a : As("arguments", a)))

ObjectLiteral(properties) ==
    Node("ObjectLiteralExpression", "", "", {}, Map(properties, LAMBDA a : As("properties", a)))

\* name: initializer; mods has "stringKey" when the key is a quoted string
PropertyAssignment(name, mods, initializer) ==
    Node("PropertyAssignment", name, "", mods, <<As("initializer", initializer)>>)

Block(statements) == Node("Block", "", "", {}, Map(statements, LAMBDA a : As("statements", a)))

ReturnStatement(expression) ==
    Node("ReturnStatement", "", "", {},
         Optional("expression", expression))

ExpressionStatement(expression) ==
    Node("ExpressionStatement", "", "", {}, <<As("expression", expression)>>)

IfStatement(expression, thenStatement) ==
    Node("IfStatement", "", "", {},
         <<As("expression", expression), As("thenStatement", thenStatement)>>)

\* export default <expression>
ExportAssignment(expression) ==
    Node("ExportAssignment", "", "", {}, <<As("expression", expression)>>)

Parenthesized(expression) ==
    Node("ParenthesizedExpression", "", "", {}, <<As("expression", expression)>>)

JsxSelfClosingElement(tagName) == Node("JsxSelfClosingElement", tagName, "", {}, <<>>)

JsxFragment == Node("JsxFragment", "", "", {}, <<>>)

NumericLiteral(text) == Node("NumericLiteral", "", text, {}, <<>>)

\* the children of a function-like node: parameters, return annotation, body
FunctionParts(parameters, type, body) ==
    Map(parameters, LAMBDA a : As("parameters", a))
        \o Optional("type", type)
        \o Optional("body", body)

FunctionDeclaration(name, mods, parameters, type, body) ==
    Node("FunctionDeclaration", name, "", mods, FunctionParts(parameters, type, body))

FunctionExpression(name, mods, parameters, type, body) ==
    Node("FunctionExpression", name, "", mods, FunctionParts(parameters, type, body))

ArrowFunction(mods, parameters, type, body) ==
    Node("ArrowFunction", "", "", mods, FunctionParts(parameters, type, body))

\* mods has "computed" when the method name is no identifier ([key]() {}, 'k'() {})
MethodDeclaration(name, mods, parameters, type, body) ==
    Node("MethodDeclaration", name, "", mods, FunctionParts(parameters, type, body))

Constructor(parameters, body) == Node("Constructor", "", "", {}, FunctionParts(parameters, NoNode, body))

\* mods has "pattern" when the declared name is a binding pattern
VariableDeclaration(name, mods, initializer) ==
    Node("VariableDeclaration", name, "", mods,
         Optional("initializer", initializer))

VariableDeclarationList(declarations) ==
    Node("VariableDeclarationList", "", "", {},
         Map(declarations, LAMBDA a : As("declarations", a)))

VariableStatement(mods, declarations) ==
    Node("VariableStatement", "", "", mods,
         <<As("declarationList", VariableDeclarationList(declarations))>>)

\* mods: "static", "?"
PropertyDeclaration(name, mods, type) ==
    Node("PropertyDeclaration", name, "", mods,
         Optional("type", type))

TypeParameter(name, constraint, default) ==
    Node("TypeParameter", name, "", {},
         Optional("constraint", constraint)
            \o Optional("default", default))

\* one heritage clause; token is "extends" or "implements"; types are given
\* by their source texts
HeritageClause(token, typeTexts) ==
    Node("HeritageClause", token, "", {},
         Map(typeTexts, LAMBDA t : As("types", Node("ExpressionWithTypeArguments", "", t, {}, <<>>))))

ClassDeclaration(name, mods, typeParameters, heritageClauses, members) ==
    Node("ClassDeclaration", name, "", mods,
         Map(typeParameters, LAMBDA a : As("typeParameters", a))
            \o Map(heritageClauses, LAMBDA a : As("heritageClauses", a))
            \o Map(members, LAMBDA a : As("members", a)))

InterfaceDeclaration(name, mods, typeParameters, heritageClauses, members) ==
    Node("InterfaceDeclaration", name, "", mods,
         Map(typeParameters, LAMBDA a : As("typeParameters", a))
            \o Map(heritageClauses, LAMBDA a : As("heritageClauses", a))
            \o Map(members, LAMBDA a : As("members", a)))

MethodSignature(name, parameters, type) ==
    Node("MethodSignature", name, "", {}, FunctionParts(parameters, type, NoNode))

IndexSignature(parameter, type) ==
    Node("IndexSignature", "", "", {}, FunctionParts(<<parameter>>, type, NoNode))

TypeAliasDeclaration(name, mods, typeParameters, type) ==
    Node("TypeAliasDeclaration", name, "", mods,
         Map(typeParameters, LAMBDA a : As("typeParameters", a)) \o <<As("type", type)>>)

EnumMember(name, initializer) ==
    Node("EnumMember", name, "", {},
         Optional("initializer", initializer))

EnumDeclaration(name, mods, members) ==
    Node("EnumDeclaration", name, "", mods, Map(members, LAMBDA a : As("members", a)))

ModuleBlock(statements) ==
    Node("ModuleBlock", "", "", {}, Map(statements, LAMBDA a : As("statements", a)))

\* namespace N { ... } or, with "stringName" in mods, declare module 'N' { ... }
ModuleDeclaration(name, mods, statements) ==
    Node("ModuleDeclaration", name, "", mods, <<As("body", ModuleBlock(statements))>>)

SourceFile(statements) ==
    Node("SourceFile", "", "", {}, Map(statements, LAMBDA a : As("statements", a)))

(***************************************************************************)
(* node.getText(sourceFile): the source text of a node.  A node built with *)
(* an explicit text has that text; every other node has the canonical      *)
(* layout of its kind.                                                     *)
(***************************************************************************)
RECURSIVE GetText(_)
GetText(node) ==
    LET texts(role) ==
            LET kids == KidsIn(node, role) IN [i \in DOMAIN kids |-> GetText(kids[i])]
        text(role)  == GetText(KidIn(node, role))
        has(role)   == Present(KidIn(node, role))
        annotation  == IF has("type") THEN ": " \o text("type") ELSE ""
        async       == IF "async" \in node.mods THEN "async " ELSE ""
        static      == IF "static" \in node.mods THEN "static " ELSE ""
        export      == (IF "export" \in node.mods THEN "export " ELSE "")
                          \o (IF "default" \in node.mods THEN "default " ELSE "")
        signature   == "(" \o Join(texts("parameters"), ", ") \o ")" \o annotation
    IN  IF node.text # "" THEN node.text
        ELSE CASE node.kind = "undefined"         -> ""
          [] node.kind = "TypeReference"     ->
                IF KidsIn(node, "typeArgument") = <<>> THEN node.name
                ELSE node.name \o "<" \o Join(texts("typeArgument"), ", ") \o ">"
          [] node.kind = "ArrayType"         -> text("elementType") \o "[]"
          [] node.kind = "UnionType"         -> Join(texts("types"), " | ")
          [] node.kind = "IntersectionType"  -> Join(texts("types"), " & ")
          [] node.kind = "TypeLiteral"       -> "{ " \o Join(texts("members"), "; ") \o " }"
          [] node.kind = "PropertySignature" ->
                node.name \o (IF "?" \in node.mods THEN "?" ELSE "") \o annotation
          [] node.kind = "Parameter"         -> node.name \o annotation
          [] node.kind = "FunctionType"      ->
                "(" \o Join(texts("parameters"), ", ") \o ") => " \o text("type")
          [] node.kind = "TupleType"         -> "[" \o Join(texts("elements"), ", ") \o "]"
          [] node.kind = "ParenthesizedType" -> "(" \o text("type") \o ")"
          [] node.kind = "ConditionalType"   ->
                text("checkType") \o " extends " \o text("extendsType") \o " ? "
                    \o text("trueType") \o " : " \o text("falseType")
          [] node.kind = "IndexedAccessType" -> text("objectType") \o "[" \o text("indexType") \o "]"
          [] node.kind = "Identifier"        -> node.name
          [] node.kind = "PropertyAccessExpression" -> text("expression") \o "." \o node.name
          [] node.kind = "CallExpression"    ->
                text("expression") \o "(" \o Join(texts("arguments"), ", ") \o ")"
          [] node.kind = "ObjectLiteralExpression" ->
                IF node.kids = <<>> THEN "{}"
                ELSE "{ " \o Join(texts("properties"), ", ") \o " }"
          [] node.kind = "PropertyAssignment" ->
                (IF "stringKey" \in node.mods THEN "'" \o node.name \o "'" ELSE node.name)
                    \o ": " \o text("initializer")
          [] node.kind = "Block"             ->
                IF node.kids = <<>> THEN "{}"
                ELSE "{ " \o Join(texts("statements"), " ") \o " }"
          [] node.kind = "ReturnStatement"   ->
                IF has("expression") THEN "return " \o text("expression") ELSE "return"
          [] node.kind = "ExpressionStatement" -> text("expression")
          [] node.kind = "IfStatement"       ->
                "if (" \o text("expression") \o ") " \o text("thenStatement")
          [] node.kind = "ExportAssignment"  -> "export default " \o text("expression")
          [] node.kind = "ParenthesizedExpression" -> "(" \o text("expression") \o ")"
          [] node.kind = "JsxSelfClosingElement" -> "<" \o node.name \o "/>"
          [] node.kind = "JsxFragment"       -> "<></>"
          [] node.kind = "FunctionDeclaration" ->
                export \o async \o "function " \o node.name \o signature \o " " \o text("body")
          [] node.kind = "FunctionExpression" ->
                async \o "function " \o node.name \o signature \o " " \o text("body")
          [] node.kind = "ArrowFunction"     -> async \o signature \o " => " \o text("body")
          [] node.kind = "MethodDeclaration" ->
                static \o async \o node.name \o signature \o " " \o text("body")
          [] node.kind = "Constructor"       -> "constructor" \o signature \o " " \o text("body")
          [] node.kind = "VariableDeclaration" ->
                node.name \o (IF has("initializer") THEN " = " \o text("initializer") ELSE "")
          [] node.kind = "VariableDeclarationList" ->
                "const " \o Join(texts("declarations"), ", ")
          [] node.kind = "VariableStatement" -> export \o text("declarationList")
          [] node.kind = "MethodSignature"   -> node.name \o signature
          [] node.kind = "IndexSignature"    -> "[" \o Join(texts("parameters"), ", ") \o "]" \o annotation
          [] node.kind = "PropertyDeclaration" ->
                static \o node.name \o (IF "?" \in node.mods THEN "?" ELSE "") \o annotation
          [] node.kind = "ClassDeclaration"  ->
                export \o "class " \o node.name \o " { " \o Join(texts("members"), " ") \o " }"
          [] OTHER                           -> node.name

(***************************************************************************)
(* simplifyType (parser.ts:41-121)                                         *)
(***************************************************************************)
\* faulty variant of BudgetSpent: the budget counts as spent one level late
BudgetSpentBelowZero(depth) == depth < 0

\* depth === 0, the test in front of every collapse to a placeholder
BudgetSpent(depth) == depth = 0

\* faulty variant of FallbackText: a text of exactly 60 characters is cut too
FallbackTextCutFromSixty(text) ==
    IF Len(text) >= 60 THEN Substring(text, 0, 60) \o "..." ELSE text

\* text.length > 60 ? text.substring(0, 60) + '...' : text
FallbackText(text) ==
    IF Len(text) > 60 THEN Substring(text, 0, 60) \o "..." ELSE text

RECURSIVE simplifyType(_, _)
simplifyType(node, depth) ==
    LET each(role, d) ==
            LET kids == KidsIn(node, role) IN [i \in DOMAIN kids |-> simplifyType(kids[i], d)]
        one(role, d)  == simplifyType(KidIn(node, role), d)
        member(m) ==
            IF m.kind = "PropertySignature" /\ m.name # ""
            THEN m.name \o (IF "?" \in m.mods THEN "?" ELSE "") \o ": "
                        \o simplifyType(KidIn(m, "type"), depth - 1)
            ELSE "..."
        param(p) == p.name \o ": " \o simplifyType(KidIn(p, "type"), depth - 1)
    IN  IF ~Present(node) \/ depth < 0 THEN "..."
        ELSE CASE node.kind = "TypeReference" ->
                    IF Len(KidsIn(node, "typeArgument")) > 0
                    THEN IF BudgetSpent(depth) THEN node.name \o "<...>"
                         ELSE node.name \o "<" \o Join(each("typeArgument", depth - 1), ", ") \o ">"
                    ELSE node.name
               [] node.kind = "ArrayType" -> one("elementType", depth) \o "[]"
               [] node.kind = "UnionType" ->
                    IF BudgetSpent(depth) THEN "..." ELSE Join(each("types", depth), " | ")
               [] node.kind = "IntersectionType" ->
                    IF BudgetSpent(depth) THEN "..." ELSE Join(each("types", depth), " & ")
               [] node.kind = "TypeLiteral" ->
                    IF BudgetSpent(depth) THEN "{ ... }"
                    ELSE "{ " \o Join(Map(KidsIn(node, "members"), member), "; ") \o " }"
               [] node.kind = "FunctionType" ->
                    IF BudgetSpent(depth) THEN "(...) => ..."
                    ELSE "(" \o Join(Map(KidsIn(node, "parameters"), param), ", ") \o ") => "
                             \o one("type", depth - 1)
               [] node.kind = "TupleType" ->
                    IF BudgetSpent(depth) THEN "[...]"
                    ELSE "[" \o Join(each("elements", depth - 1), ", ") \o "]"
               [] node.kind = "ParenthesizedType" -> "(" \o one("type", depth) \o ")"
               [] node.kind = "ConditionalType" ->
                    IF BudgetSpent(depth) THEN "... ? ... : ..."
                    ELSE one("checkType", depth - 1) \o " extends " \o one("extendsType", depth - 1)
                            \o " ? " \o one("trueType", depth - 1)
                            \o " : " \o one("falseType", depth - 1)
               [] node.kind = "MappedType" ->
                    IF BudgetSpent(depth) THEN "{ [K in ...]: ... }"
                    ELSE Substring(CollapseWhitespace(GetText(node)), 0, 80)
                            \o (IF Len(GetText(node)) > 80 THEN "..." ELSE "")
               [] node.kind = "IndexedAccessType" ->
                    one("objectType", depth) \o "[" \o one("indexType", depth) \o "]"
               [] OTHER -> FallbackText(CollapseWhitespace(GetText(node)))

(***************************************************************************)
(* Node references: paths from the SourceFile node                         *)
(***************************************************************************)
RECURSIVE NodeAt(_, _)
NodeAt(sourceFile, path) ==
    IF path = <<>> THEN sourceFile
    ELSE NodeAt(sourceFile.kids[Head(path)], Tail(path))

\* the first i indices of a path: the ancestor at depth i
Prefix(path, i) == SubSeq(path, 1, i)

\* node.parent
ParentPath(path) == Prefix(path, Len(path) - 1)

\* the kind of the ancestor at depth i, "undefined" above the SourceFile
KindAt(sourceFile, path, i) ==
    IF i < 0 \/ i > Len(path) THEN "undefined" ELSE NodeAt(sourceFile, Prefix(path, i)).kind

\* ts.isIdentifier(declaration.name) for the declarations that may be named
\* by something else
HasIdentifierName(node) ==
    node.name # "" /\ node.mods \cap {"pattern", "stringKey", "computed", "stringName"} = {}

JsxKinds == {"JsxElement", "JsxSelfClosingElement", "JsxFragment"}

\* the node kinds ts.canHaveModifiers accepts
CanHaveModifiers ==
    {"TypeParameter", "Parameter", "PropertySignature", "PropertyDeclaration",
     "MethodSignature", "MethodDeclaration", "Constructor", "IndexSignature",
     "FunctionExpression", "ArrowFunction", "VariableStatement", "FunctionDeclaration",
     "ClassDeclaration", "InterfaceDeclaration", "TypeAliasDeclaration",
     "EnumDeclaration", "ModuleDeclaration", "ExportAssignment"}

(***************************************************************************)
(* isNodeExported (parser.ts:709-757)                                      *)
(***************************************************************************)
RECURSIVE isNodeExported(_, _)
\* faulty variant of isNodeExported: only the node's own modifiers are
\* looked at, never those of the statement around it
isNodeExportedOwnModifiers(sourceFile, path) ==
    LET node == NodeAt(sourceFile, path)
    IN  node.kind \in CanHaveModifiers /\ node.mods \cap {"export", "default"} # {}

isNodeExported(sourceFile, path) ==
    LET node == NodeAt(sourceFile, path)
        depth == Len(path)
        exportModifier(n) == n.mods \cap {"export", "default"} # {}
    IN  IF node.kind \in CanHaveModifiers /\ exportModifier(node) THEN TRUE
        ELSE IF KindAt(sourceFile, path, depth - 1) = "ExportSpecifier" THEN TRUE
        ELSE IF /\ node.kind = "VariableDeclaration"
                /\ KindAt(sourceFile, path, depth - 1) = "VariableDeclarationList"
                /\ KindAt(sourceFile, path, depth - 2) = "VariableStatement"
             THEN isNodeExported(sourceFile, Prefix(path, depth - 2))
        ELSE IF node.kind \in {"FunctionDeclaration", "ClassDeclaration"} /\ exportModifier(node)
             THEN TRUE
        ELSE \* walk from the node up to, not including, the SourceFile; stop
             \* after the first Block or ModuleBlock
             \E i \in 1..depth :
                /\ KindAt(sourceFile, path, i) \in
                      {"VariableStatement", "FunctionDeclaration", "ClassDeclaration"}
                /\ exportModifier(NodeAt(sourceFile, Prefix(path, i)))
                /\ \A j \in (i + 1)..depth :
                      KindAt(sourceFile, path, j) \notin {"Block", "ModuleBlock"}

(***************************************************************************)
(* findParentName (parser.ts:763-792)                                      *)
(***************************************************************************)
findParentName(sourceFile, path) ==
    LET depth == Len(path)
        variableName(i) ==
            \* the name of the node at depth i when that node is a variable
            \* declaration named by an identifier
            IF /\ KindAt(sourceFile, path, i) = "VariableDeclaration"
               /\ HasIdentifierName(NodeAt(sourceFile, Prefix(path, i)))
            THEN NodeAt(sourceFile, Prefix(path, i)).name
            ELSE Undefined
        \* what one round of the loop returns for the ancestor at depth i
        found(i) ==
            LET parent == NodeAt(sourceFile, Prefix(path, i))
            IN  IF parent.kind = "ClassDeclaration" /\ parent.name # "" THEN parent.name
                ELSE IF /\ parent.kind = "PropertyAssignment"
                        /\ KindAt(sourceFile, path, i - 1) = "ObjectLiteralExpression"
                        /\ variableName(i - 2) # Undefined
                     THEN variableName(i - 2)
                ELSE IF /\ parent.kind = "PropertyAssignment"
                        /\ HasIdentifierName(parent)
                        /\ i = depth - 1
                        /\ NodeAt(sourceFile, path).role = "initializer"
                        /\ variableName(i - 2) # Undefined
                     THEN variableName(i - 2)
                ELSE Undefined
        hits == {i \in 0..(depth - 1) : found(i) # Undefined}
    IN  IF hits = {} THEN Undefined
        ELSE found(CHOOSE i \in hits : \A j \in hits : j <= i)

(***************************************************************************)
(* inferReactComponentReturnType (parser.ts:901-957)                       *)
(***************************************************************************)
\* the node is, or holds at any depth, a return statement of a markup
\* element, parenthesized or not
RECURSIVE ReturnsMarkupBelow(_)
ReturnsMarkupBelow(node) ==
    \/ /\ node.kind = "ReturnStatement"
       /\ \/ KidIn(node, "expression").kind \in JsxKinds
          \/ /\ KidIn(node, "expression").kind = "ParenthesizedExpression"
             /\ KidIn(KidIn(node, "expression"), "expression").kind \in JsxKinds
    \/ \E k \in 1..Len(node.kids) : ReturnsMarkupBelow(node.kids[k])

\* faulty variant of inferReactComponentReturnType: the search for a return
\* of markup goes into nested statements and functions
inferReactComponentReturnTypeDeep(sourceFile, path) ==
    LET node == NodeAt(sourceFile, path)
        parent == NodeAt(sourceFile, ParentPath(path))
        funcName ==
            IF node.kind = "FunctionDeclaration" /\ node.name # "" THEN node.name
            ELSE IF path # <<>> /\ parent.kind = "VariableDeclaration" /\ HasIdentifierName(parent)
                 THEN parent.name
            ELSE ""
        body == KidIn(node, "body")
    IN  IF /\ funcName # ""
           /\ CharAt(funcName, 1) = ToUpperCase(CharAt(funcName, 1))
           /\ CharAt(funcName, 1) # ToLowerCase(CharAt(funcName, 1))
        THEN TRUE
        ELSE ReturnsMarkupBelow(body)

inferReactComponentReturnType(sourceFile, path) ==
    LET node == NodeAt(sourceFile, path)
        parent == NodeAt(sourceFile, ParentPath(path))
        funcName ==
            IF node.kind = "FunctionDeclaration" /\ node.name # "" THEN node.name
            ELSE IF path # <<>> /\ parent.kind = "VariableDeclaration" /\ HasIdentifierName(parent)
                 THEN parent.name
            ELSE ""
        body == KidIn(node, "body")
        isJsx(e) ==
            \/ e.kind \in JsxKinds
            \/ e.kind = "ParenthesizedExpression" /\ KidIn(e, "expression").kind \in JsxKinds
    IN  IF /\ funcName # ""
           /\ CharAt(funcName, 1) = ToUpperCase(CharAt(funcName, 1))
           /\ CharAt(funcName, 1) # ToLowerCase(CharAt(funcName, 1))
        THEN TRUE
        ELSE IF Present(body) /\ body.kind = "Block"
             THEN \E k \in 1..Len(body.kids) :
                    /\ body.kids[k].kind = "ReturnStatement"
                    /\ Present(KidIn(body.kids[k], "expression"))
                    /\ isJsx(KidIn(body.kids[k], "expression"))
        ELSE IF node.kind = "ArrowFunction" /\ body.kind # "Block"
             THEN isJsx(body)
        ELSE FALSE

(***************************************************************************)
(* extractFunctionSignature (parser.ts:798-896).  The result is <<>> for   *)
(* null and <<signature>> otherwise.                                       *)
(***************************************************************************)
\* faulty variant of ReturnType: in a markup file the component test comes
\* before the test for a single-expression arrow body
ReturnTypeMarkupFirst(sourceFile, path, filePath) ==
    LET node == NodeAt(sourceFile, path)
    IN  IF Present(KidIn(node, "type")) THEN GetText(KidIn(node, "type"))
        ELSE IF /\ EndsWith(filePath, ".tsx") \/ EndsWith(filePath, ".jsx")
                /\ inferReactComponentReturnType(sourceFile, path)
             THEN "React.JSX.Element"
        ELSE IF node.kind = "ArrowFunction" /\ KidIn(node, "body").kind # "Block" THEN "inferred"
        ELSE "void"

\* the return type of a callable (parser.ts:856-873)
ReturnType(sourceFile, path, filePath) ==
    LET node == NodeAt(sourceFile, path)
    IN  IF Present(KidIn(node, "type")) THEN GetText(KidIn(node, "type"))
        ELSE IF node.kind = "ArrowFunction" /\ KidIn(node, "body").kind # "Block" THEN "inferred"
        ELSE IF /\ EndsWith(filePath, ".tsx") \/ EndsWith(filePath, ".jsx")
                /\ inferReactComponentReturnType(sourceFile, path)
             THEN "React.JSX.Element"
        ELSE "void"

\* faulty variant of NamingBranch: any variable declaration names its
\* initializer, whatever the declaration is named by
NamingBranchAnyVariable(node, parent) ==
    IF node.kind = "FunctionDeclaration" /\ node.name # "" THEN 1
    ELSE IF node.kind = "MethodDeclaration" /\ HasIdentifierName(node) THEN 2
    ELSE IF node.kind = "FunctionExpression" /\ node.name # "" THEN 3
    ELSE IF parent.kind = "VariableDeclaration" THEN 4
    ELSE IF /\ parent.kind = "PropertyAssignment"
            /\ HasIdentifierName(parent)
            /\ node.role = "initializer"
         THEN 5
    ELSE 0

\* which way of naming the callable applies (parser.ts:810-843): the
\* number of the branch taken, 1..5, or 0 for the branch that returns null
NamingBranch(node, parent) ==
    IF node.kind = "FunctionDeclaration" /\ node.name # "" THEN 1
    ELSE IF node.kind = "MethodDeclaration" /\ HasIdentifierName(node) THEN 2
    ELSE IF node.kind = "FunctionExpression" /\ node.name # "" THEN 3
    ELSE IF parent.kind = "VariableDeclaration" /\ HasIdentifierName(parent) THEN 4
    ELSE IF /\ parent.kind = "PropertyAssignment"
            /\ HasIdentifierName(parent)
            /\ node.role = "initializer"
         THEN 5
    ELSE 0

extractFunctionSignature(sourceFile, path, filePath, routerContext) ==
    LET node == NodeAt(sourceFile, path)
        parent == NodeAt(sourceFile, ParentPath(path))
        depth == Len(path)
        found == findParentName(sourceFile, path)
        \* findParentName(node) || parentName
        resolved == IF Truthy(found) THEN found ELSE routerContext
        branch == NamingBranch(node, parent)
        functionName == IF branch \in {1, 2, 3} THEN node.name ELSE parent.name
        isExported ==
            CASE branch = 1 -> isNodeExported(sourceFile, path)
              [] branch = 4 -> isNodeExported(sourceFile, ParentPath(path))
              [] branch = 5 ->
                    /\ KindAt(sourceFile, path, depth - 3) = "VariableDeclaration"
                    /\ isNodeExported(sourceFile, Prefix(path, depth - 3))
              [] OTHER -> FALSE
        parentName == IF branch = 1 THEN routerContext ELSE resolved
        parameters ==
            Map(KidsIn(node, "parameters"), LAMBDA param :
                [name |-> IF param.name = "" THEN "_" ELSE param.name,
                 type |-> CollapseNewlines(
                            IF Present(KidIn(param, "type")) THEN GetText(KidIn(param, "type"))
                            ELSE "any")])
        returnType == ReturnType(sourceFile, path, filePath)
        paramString == Join(Map(parameters, LAMBDA q : q.name \o ": " \o q.type), ", ")
        fullName == IF Truthy(parentName) THEN parentName \o "." \o functionName ELSE functionName
    IN  IF branch = 0 THEN <<>>
        ELSE <<[name |-> functionName,
                parameters |-> parameters,
                returnType |-> returnType,
                fullSignature |-> fullName \o "(" \o paramString \o "): " \o returnType,
                filePath |-> filePath,
                isExported |-> isExported,
                parentName |-> parentName,
                isTrpcProcedure |-> FALSE,
                procedureType |-> Undefined,
                hasInput |-> Undefined,
                inputSchemaName |-> Undefined,
                inputSchemaText |-> Undefined]>>

(***************************************************************************)
(* extractTrpcProcedureSignature (parser.ts:614-703)                       *)
(***************************************************************************)
\* the loop over the call chain (parser.ts:633-667): one round per call on
\* a property access, from the initializer towards the base of the chain
\* faulty variant of WalkChain: the text of the input argument is recorded
\* as it is written
RECURSIVE WalkChainRawText(_, _)
WalkChainRawText(currentExpr, found) ==
    LET expression == KidIn(currentExpr, "expression")
        methodName == expression.name
        arguments == KidsIn(currentExpr, "arguments")
        kind ==
            IF methodName = "query" THEN "query"
            ELSE IF methodName = "mutation" THEN "mutation"
            ELSE found.finalProcedureType
        name ==
            IF methodName = "input" /\ Len(arguments) > 0 /\ arguments[1].kind = "Identifier"
            THEN arguments[1].name
            ELSE found.inputSchemaName
        text ==
            IF methodName = "input" /\ Len(arguments) > 0 /\ arguments[1].kind # "Identifier"
            THEN GetText(arguments[1])
            ELSE found.inputSchemaText
    IN  IF currentExpr.kind = "CallExpression" /\ expression.kind = "PropertyAccessExpression"
        THEN WalkChainRawText(KidIn(expression, "expression"),
                       [finalProcedureType |-> kind,
                        hasInput |-> found.hasInput \/ methodName = "input",
                        inputSchemaName |-> name,
                        inputSchemaText |-> text])
        ELSE found

\* faulty variant of WalkChain: a kind once recorded is kept
RECURSIVE WalkChainFirstKind(_, _)
WalkChainFirstKind(currentExpr, found) ==
    LET expression == KidIn(currentExpr, "expression")
        methodName == expression.name
        arguments == KidsIn(currentExpr, "arguments")
        kind ==
            IF Truthy(found.finalProcedureType) THEN found.finalProcedureType
            ELSE IF methodName = "query" THEN "query"
            ELSE IF methodName = "mutation" THEN "mutation"
            ELSE found.finalProcedureType
        name ==
            IF methodName = "input" /\ Len(arguments) > 0 /\ arguments[1].kind = "Identifier"
            THEN arguments[1].name
            ELSE found.inputSchemaName
        text ==
            IF methodName = "input" /\ Len(arguments) > 0 /\ arguments[1].kind # "Identifier"
            THEN CollapseWhitespace(GetText(arguments[1]))
            ELSE found.inputSchemaText
    IN  IF currentExpr.kind = "CallExpression" /\ expression.kind = "PropertyAccessExpression"
        THEN WalkChainFirstKind(KidIn(expression, "expression"),
                       [finalProcedureType |-> kind,
                        hasInput |-> found.hasInput \/ methodName = "input",
                        inputSchemaName |-> name,
                        inputSchemaText |-> text])
        ELSE found

RECURSIVE WalkChain(_, _)
WalkChain(currentExpr, found) ==
    LET expression == KidIn(currentExpr, "expression")
        methodName == expression.name
        arguments == KidsIn(currentExpr, "arguments")
        kind ==
            IF methodName = "query" THEN "query"
            ELSE IF methodName = "mutation" THEN "mutation"
            ELSE found.finalProcedureType
        name ==
            IF methodName = "input" /\ Len(arguments) > 0 /\ arguments[1].kind = "Identifier"
            THEN arguments[1].name
            ELSE found.inputSchemaName
        text ==
            IF methodName = "input" /\ Len(arguments) > 0 /\ arguments[1].kind # "Identifier"
            THEN CollapseWhitespace(GetText(arguments[1]))
            ELSE found.inputSchemaText
    IN  IF currentExpr.kind = "CallExpression" /\ expression.kind = "PropertyAccessExpression"
        THEN WalkChain(KidIn(expression, "expression"),
                       [finalProcedureType |-> kind,
                        hasInput |-> found.hasInput \/ methodName = "input",
                        inputSchemaName |-> name,
                        inputSchemaText |-> text])
        ELSE found

\* faulty variant of extractTrpcProcedureSignature: an entry whose chain
\* records no kind is emitted all the same
extractTrpcProcedureSignatureAnyKind(node, filePath, routerName) ==
    LET chain == WalkChain(KidIn(node, "initializer"),
                           [finalProcedureType |-> Undefined, hasInput |-> FALSE,
                            inputSchemaName |-> Undefined, inputSchemaText |-> Undefined])
    IN  IF ~HasIdentifierName(node) THEN <<>>
        ELSE <<[name |-> node.name,
                parameters |-> <<>>,
                returnType |-> "unknown",
                fullSignature |-> routerName \o "." \o node.name \o ": "
                                    \o chain.finalProcedureType,
                filePath |-> filePath,
                isExported |-> FALSE,
                parentName |-> routerName,
                isTrpcProcedure |-> TRUE,
                procedureType |-> chain.finalProcedureType,
                hasInput |-> chain.hasInput,
                inputSchemaName |-> chain.inputSchemaName,
                inputSchemaText |-> chain.inputSchemaText]>>

extractTrpcProcedureSignature(node, filePath, routerName) ==
    LET procedureName == node.name
        chain == WalkChain(KidIn(node, "initializer"),
                           [finalProcedureType |-> Undefined, hasInput |-> FALSE,
                            inputSchemaName |-> Undefined, inputSchemaText |-> Undefined])
        inputPart ==
            IF chain.hasInput
            THEN IF Truthy(chain.inputSchemaName) THEN " (input: " \o chain.inputSchemaName \o ")"
                 ELSE IF Truthy(chain.inputSchemaText) THEN " (input: " \o chain.inputSchemaText \o ")"
                 ELSE " (input)"
            ELSE ""
    IN  IF ~HasIdentifierName(node) THEN <<>>
        ELSE IF ~Truthy(chain.finalProcedureType) THEN <<>>
        ELSE <<[name |-> procedureName,
                parameters |-> <<>>,
                returnType |-> "unknown",
                fullSignature |-> routerName \o "." \o procedureName \o ": "
                                    \o chain.finalProcedureType \o inputPart,
                filePath |-> filePath,
                isExported |-> FALSE,
                parentName |-> routerName,
                isTrpcProcedure |-> TRUE,
                procedureType |-> chain.finalProcedureType,
                hasInput |-> chain.hasInput,
                inputSchemaName |-> chain.inputSchemaName,
                inputSchemaText |-> chain.inputSchemaText]>>

(***************************************************************************)
(* isInsideClassDeclaration (parser.ts:570-577)                            *)
(***************************************************************************)
\* faulty variant of isInsideClassDeclaration: the walk starts at the
\* grandparent, so the class a method is a member of is not seen
isInsideClassDeclarationFromGrandparent(sourceFile, path) ==
    \E i \in 0..(Len(path) - 2) : KindAt(sourceFile, path, i) = "ClassDeclaration"

isInsideClassDeclaration(sourceFile, path) ==
    \E i \in 0..(Len(path) - 1) : KindAt(sourceFile, path, i) = "ClassDeclaration"

(***************************************************************************)
(* isInsideTrpcProcedureChain (parser.ts:580-608)                          *)
(***************************************************************************)
\* faulty variant of isInsideTrpcProcedureChain: only the direct property
\* value of a router object counts, the calls around the node are not walked
isInsideTrpcProcedureChainDirectOnly(sourceFile, path) ==
    LET depth == Len(path)
    IN  /\ KindAt(sourceFile, path, depth - 1) = "PropertyAssignment"
        /\ NodeAt(sourceFile, path).role = "initializer"
        /\ KindAt(sourceFile, path, depth - 2) = "ObjectLiteralExpression"
        /\ KindAt(sourceFile, path, depth - 3) = "CallExpression"
        /\ GetText(KidIn(NodeAt(sourceFile, Prefix(path, depth - 3)), "expression"))
                = "createTRPCRouter"

\* faulty variant of isInsideTrpcProcedureChain: only a call on something
\* named ...Procedure... counts as a procedure chain
isInsideTrpcProcedureChainByBaseName(sourceFile, path) ==
    LET depth == Len(path)
        exprText(i) == GetText(KidIn(NodeAt(sourceFile, Prefix(path, i)), "expression"))
    IN  \E i \in 0..(depth - 1) :
            /\ KindAt(sourceFile, path, i) = "CallExpression"
            /\ Includes(exprText(i), "Procedure")

isInsideTrpcProcedureChain(sourceFile, path) ==
    LET depth == Len(path)
        exprText(i) == GetText(KidIn(NodeAt(sourceFile, Prefix(path, i)), "expression"))
    IN  \E i \in 0..(depth - 1) :
            \/ /\ KindAt(sourceFile, path, i) = "CallExpression"
               /\ \/ EndsWith(exprText(i), ".query")
                  \/ EndsWith(exprText(i), ".mutation")
                  \/ EndsWith(exprText(i), ".input")
                  \/ EndsWith(exprText(i), ".use")
                  \/ Includes(exprText(i), "Procedure")
                  \/ exprText(i) = "createTRPCRouter"
            \/ /\ KindAt(sourceFile, path, i) = "PropertyAssignment"
               /\ i = depth - 1
               /\ NodeAt(sourceFile, path).role = "initializer"
               /\ KindAt(sourceFile, path, i - 1) = "ObjectLiteralExpression"
               /\ KindAt(sourceFile, path, i - 2) = "CallExpression"
               /\ exprText(i - 2) = "createTRPCRouter"

(***************************************************************************)
(* Type signature extractors (parser.ts:126-442).  Each returns <<>> for    *)
(* null and <<signature>> otherwise.                                       *)
(***************************************************************************)
DEFAULT_TYPE_DEPTH == 2

\* the generic parameter list built alike by the interface, type alias and
\* class extractors (parser.ts:136-144, 208-216, 276-284)
Generics(node, depth) ==
    LET typeParameters == KidsIn(node, "typeParameters")
        param(tp) ==
            tp.name
              \o (IF Present(KidIn(tp, "constraint"))
                  THEN " extends " \o simplifyType(KidIn(tp, "constraint"), depth - 1) ELSE "")
              \o (IF Present(KidIn(tp, "default"))
                  THEN " = " \o simplifyType(KidIn(tp, "default"), depth - 1) ELSE "")
    IN  IF Len(typeParameters) > 0
        THEN "<" \o Join(Map(typeParameters, param), ", ") \o ">"
        ELSE ""

\* the parameter list of a method, method signature or constructor
ParameterList(member, depth) ==
    Join(Map(KidsIn(member, "parameters"),
             LAMBDA q : q.name \o ": " \o simplifyType(KidIn(q, "type"), depth - 1)), ", ")

\* clause.types.map(t => t.getText(sourceFile)).join(', ')
HeritageTypes(clause) == Join(Map(KidsIn(clause, "types"), LAMBDA t : GetText(t)), ", ")

TypeSignature(name, kind, fullSignature, filePath, isExported) ==
    [name |-> name, kind |-> kind, fullSignature |-> fullSignature,
     filePath |-> filePath, isExported |-> isExported]

extractInterfaceSignature(sourceFile, path, filePath, depth) ==
    LET node == NodeAt(sourceFile, path)
        extendsClauses ==
            SelectSeq(KidsIn(node, "heritageClauses"), LAMBDA h : h.name = "extends")
        extendsClause ==
            IF Len(extendsClauses) > 0 THEN " extends " \o HeritageTypes(extendsClauses[1]) ELSE ""
        member(m) ==
            IF m.kind = "PropertySignature"
            THEN m.name \o (IF "?" \in m.mods THEN "?" ELSE "") \o ": "
                        \o simplifyType(KidIn(m, "type"), depth)
            ELSE IF m.kind = "MethodSignature"
            THEN m.name \o "(" \o ParameterList(m, depth) \o "): "
                        \o (IF Present(KidIn(m, "type"))
                            THEN simplifyType(KidIn(m, "type"), depth - 1) ELSE "void")
            ELSE IF m.kind = "IndexSignature"
            THEN "[" \o KidIn(m, "parameters").name \o ": "
                     \o simplifyType(KidIn(KidIn(m, "parameters"), "type"), depth - 1) \o "]: "
                     \o simplifyType(KidIn(m, "type"), depth - 1)
            ELSE ""
        members == SelectSeq(Map(KidsIn(node, "members"), member), LAMBDA t : t # "")
    IN  <<TypeSignature(node.name, "interface",
            "interface " \o node.name \o Generics(node, depth) \o extendsClause
                \o " { " \o Join(members, "; ") \o " }",
            filePath, isNodeExported(sourceFile, path))>>

extractTypeAliasSignature(sourceFile, path, filePath, depth) ==
    LET node == NodeAt(sourceFile, path)
    IN  <<TypeSignature(node.name, "type",
            "type " \o node.name \o Generics(node, depth) \o " = "
                \o simplifyType(KidIn(node, "type"), depth),
            filePath, isNodeExported(sourceFile, path))>>

extractEnumSignature(sourceFile, path, filePath) ==
    LET node == NodeAt(sourceFile, path)
        member(m) ==
            IF Present(KidIn(m, "initializer"))
            THEN m.name \o " = " \o GetText(KidIn(m, "initializer"))
            ELSE m.name
    IN  <<TypeSignature(node.name, "enum",
            "enum " \o node.name \o " { " \o Join(Map(KidsIn(node, "members"), member), ", ") \o " }",
            filePath, isNodeExported(sourceFile, path))>>

\* faulty variant of MethodReturnType: the async modifier is not looked at
MethodReturnTypeIgnoresAsync(m, depth) ==
    IF Present(KidIn(m, "type")) THEN simplifyType(KidIn(m, "type"), depth - 1)
    ELSE "void"

\* the return type shown for a method of a class (parser.ts:318-326)
MethodReturnType(m, depth) ==
    IF Present(KidIn(m, "type")) THEN simplifyType(KidIn(m, "type"), depth - 1)
    ELSE IF "async" \in m.mods THEN "Promise<unknown>"
    ELSE "void"

\* faulty variant of extractClassSignature: a class without a name is
\* reported like any other
extractClassSignatureUnnamed(sourceFile, path, filePath, depth) ==
    LET node == NodeAt(sourceFile, path)
    IN  <<TypeSignature(node.name, "class", "class " \o node.name \o " { }",
                        filePath, isNodeExported(sourceFile, path))>>

extractClassSignature(sourceFile, path, filePath, depth) ==
    LET node == NodeAt(sourceFile, path)
        clauses(token) == SelectSeq(KidsIn(node, "heritageClauses"), LAMBDA h : h.name = token)
        \* the loop over the clauses keeps the last clause of each token
        clause(token) ==
            IF Len(clauses(token)) > 0
            THEN " " \o token \o " " \o HeritageTypes(clauses(token)[Len(clauses(token))])
            ELSE ""
        static(m) == IF "static" \in m.mods THEN "static " ELSE ""
        member(m) ==
            IF m.kind = "PropertyDeclaration"
            THEN static(m) \o m.name \o (IF "?" \in m.mods THEN "?" ELSE "") \o ": "
                    \o simplifyType(KidIn(m, "type"), depth)
            ELSE IF m.kind = "MethodDeclaration"
            THEN static(m) \o m.name \o "(" \o ParameterList(m, depth) \o "): "
                    \o MethodReturnType(m, depth)
            ELSE IF m.kind = "Constructor"
            THEN "constructor(" \o ParameterList(m, depth) \o ")"
            ELSE ""
        members == SelectSeq(Map(KidsIn(node, "members"), member), LAMBDA t : t # "")
    IN  IF node.name = "" THEN <<>>
        ELSE <<TypeSignature(node.name, "class",
                "class " \o node.name \o Generics(node, depth) \o clause("extends")
                    \o clause("implements") \o " { " \o Join(members, "; ") \o " }",
                filePath, isNodeExported(sourceFile, path))>>

\* the content summary of a namespace or ambient module body
\* (parser.ts:364-386, 410-432)
ModuleContents(node) ==
    LET body == KidIn(node, "body")
        firstDeclaration(statement) ==
            LET declarations == KidsIn(KidIn(statement, "declarationList"), "declarations")
            IN  IF Len(declarations) > 0 THEN declarations[1] ELSE NoNode
        entry(statement) ==
            IF statement.kind = "InterfaceDeclaration" THEN "interface " \o statement.name
            ELSE IF statement.kind = "TypeAliasDeclaration" THEN "type " \o statement.name
            ELSE IF statement.kind = "EnumDeclaration" THEN "enum " \o statement.name
            ELSE IF statement.kind = "ClassDeclaration" /\ statement.name # ""
                 THEN "class " \o statement.name
            ELSE IF statement.kind = "FunctionDeclaration" /\ statement.name # ""
                 THEN "function " \o statement.name
            ELSE IF /\ statement.kind = "VariableStatement"
                    /\ Present(firstDeclaration(statement))
                    /\ HasIdentifierName(firstDeclaration(statement))
                 THEN "const " \o firstDeclaration(statement).name
            ELSE ""
        contents ==
            IF Present(body) /\ body.kind = "ModuleBlock"
            THEN SelectSeq(Map(body.kids, entry), LAMBDA t : t # "")
            ELSE <<>>
    IN  IF Len(contents) > 0 THEN Join(contents, "; ") ELSE "..."

\* node.name.getText(sourceFile) of a module declaration
ModuleName(node) == IF "stringName" \in node.mods THEN "'" \o node.name \o "'" ELSE node.name

extractNamespaceSignature(sourceFile, path, filePath) ==
    LET node == NodeAt(sourceFile, path)
    IN  <<TypeSignature(ModuleName(node), "namespace",
            "namespace " \o ModuleName(node) \o " { " \o ModuleContents(node) \o " }",
            filePath, isNodeExported(sourceFile, path))>>

extractModuleSignature(sourceFile, path, filePath) ==
    LET node == NodeAt(sourceFile, path)
    IN  <<TypeSignature(ModuleName(node), "module",
            "declare module " \o ModuleName(node) \o " { " \o ModuleContents(node) \o " }",
            filePath, isNodeExported(sourceFile, path))>>

(***************************************************************************)
(* The type expressions handed to simplifyType: every expression built     *)
(* from the leaves below by at most MaxTypeNesting structural wrappers.    *)
(***************************************************************************)
FiftyChars == "abcdefghijabcdefghijabcdefghijabcdefghijabcdefghij"

RefA == TypeReference("A", <<>>)

KeywordString == OtherType("string")

\* keyof <name>: 60 characters, 61 characters, and 66 characters of which
\* a line break and its indentation collapse to one blank (61 left)
Raw60 == OtherType("keyof " \o FiftyChars \o "klmn")

Raw61 == OtherType("keyof " \o FiftyChars \o "klmno")

Raw66Ws == OtherType("keyof\n     " \o FiftyChars \o "klmno")

\* 64 characters that collapse to 59
Raw64Ws == OtherType("keyof\n     " \o FiftyChars \o "klm")

\* the mapped type of the repository's sample file, and the same with the
\* parameter named K
MappedP == MappedType("{ [P in keyof T]: T[P] | null }")

MappedK == MappedType("{ [K in keyof T]: T[K] | null }")

\* 80 characters; 81 characters; 85 characters that collapse to 79
Mapped80 == MappedType("{ [K in keyof " \o FiftyChars \o "]: T[K] | null }")

Mapped81 == MappedType("{ [K in keyof " \o FiftyChars \o "x]: T[K] | null }")

Mapped86Ws == MappedType("{\n    [K in keyof " \o FiftyChars \o "]:\n  T[K] | null}")

TypeLeaves ==
    {RefA, KeywordString, Raw60, Raw61, Raw66Ws, Raw64Ws,
     MappedP, MappedK, Mapped80, Mapped81, Mapped86Ws}

\* every way one structural node is put around the type expression x
TypeWrappers(x) ==
    {TypeReference("Map", <<RefA, x>>),
     ArrayType(x),
     UnionType(<<x, KeywordString>>),
     IntersectionType(<<RefA, x>>),
     TypeLiteral(<<PropertySignature("a", FALSE, x), PropertySignature("b", TRUE, NoNode),
                   MethodSignature("m", <<>>, KeywordString)>>),
     FunctionType(<<Parameter("p", x), Parameter("q", NoNode)>>, RefA),
     FunctionType(<<>>, x),
     TupleType(<<x, RefA>>),
     ParenthesizedType(x),
     ConditionalType(x, RefA, KeywordString, x),
     IndexedAccessType(x, KeywordString),
     IndexedAccessType(RefA, x)}

RECURSIVE TypeExpressions(_)
TypeExpressions(nesting) ==
    IF nesting = 0 THEN TypeLeaves
    ELSE LET inner == TypeExpressions(nesting - 1)
         IN  inner \cup UNION {TypeWrappers(x) : x \in inner}

(***************************************************************************)
(* The source files: one statement out of Statements, after at most        *)
(* MaxPreamble router definitions.                                         *)
(***************************************************************************)
EmptyBlock == Block(<<>>)

Div == JsxSelfClosingElement("div")

One == NumericLiteral("1")

Step(method, arguments) == [method |-> method, arguments |-> arguments]

\* base.m1(args1).m2(args2)...: the last step is the outermost call
RECURSIVE Chain(_, _)
Chain(base, steps) ==
    IF steps = <<>> THEN base
    ELSE Call(PropertyAccess(Chain(base, SubSeq(steps, 1, Len(steps) - 1)),
                             steps[Len(steps)].method),
              steps[Len(steps)].arguments)

Base == Identifier("base")

PublicProcedure == Identifier("publicProcedure")

Schema == Identifier("Schema")

Fn == Identifier("fn")

Fn2 == Identifier("fn2")

\* z.object({ id: z.string() }), written over three lines
ZodObject ==
    WithText(Call(PropertyAccess(Identifier("z"), "object"),
                  <<ObjectLiteral(<<PropertyAssignment("id", {},
                        Call(PropertyAccess(Identifier("z"), "string"), <<>>))>>)>>),
             "z.object({\n    id: z.string()\n  })")

RouterCall(arguments) == Call(Identifier("createTRPCRouter"), arguments)

\* export const appRouter = createTRPCRouter({ both: ..., ... })
RouterMain ==
    VariableStatement({"export"}, <<VariableDeclaration("appRouter", {},
        RouterCall(<<ObjectLiteral(<<
            PropertyAssignment("both", {},
                Chain(Base, <<Step("input", <<Schema>>), Step("mutation", <<Fn>>),
                              Step("query", <<Fn2>>)>>)),
            PropertyAssignment("flip", {},
                Chain(Base, <<Step("query", <<Fn>>), Step("mutation", <<Fn2>>)>>)),
            PropertyAssignment("guard", {},
                Chain(Base, <<Step("input", <<Schema>>),
                              Step("use", <<FunctionExpression("mw", {}, <<>>, NoNode, EmptyBlock)>>)>>)),
            PropertyAssignment("list", {},
                Chain(PublicProcedure,
                      <<Step("query", <<FunctionExpression("run", {"async"}, <<>>, NoNode, EmptyBlock)>>)>>)),
            PropertyAssignment("add", {},
                Chain(Base, <<Step("input", <<ZodObject>>),
                              Step("mutation", <<ArrowFunction({"async"}, <<>>, NoNode, EmptyBlock)>>)>>)),
            PropertyAssignment("twice", {},
                Chain(Base, <<Step("input", <<Schema>>), Step("input", <<ZodObject>>),
                              Step("query", <<Fn>>)>>)),
            PropertyAssignment("bare", {},
                Chain(Base, <<Step("input", <<>>), Step("query", <<Fn>>)>>)),
            PropertyAssignment("sub", {}, Identifier("otherRouter")),
            PropertyAssignment("quoted", {"stringKey"}, Chain(Base, <<Step("query", <<Fn>>)>>)),
            MethodDeclaration("helper", {}, <<>>, NoNode, EmptyBlock)
        >>)>>))>>)

\* const r2 = createTRPCRouter(routes)
RouterOpaque ==
    VariableStatement({}, <<VariableDeclaration("r2", {}, RouterCall(<<Identifier("routes")>>))>>)

\* export default createTRPCRouter({ ping: base.query(fn) })
RouterUnbound ==
    ExportAssignment(RouterCall(<<ObjectLiteral(<<
        PropertyAssignment("ping", {}, Chain(Base, <<Step("query", <<Fn>>)>>))>>)>>))

\* const api = wrap(createTRPCRouter({ pong: publicProcedure.mutation(fn) }))
RouterNested ==
    VariableStatement({}, <<VariableDeclaration("api", {},
        Call(Identifier("wrap"), <<RouterCall(<<ObjectLiteral(<<
            PropertyAssignment("pong", {},
                Chain(PublicProcedure, <<Step("mutation", <<Fn>>)>>))>>)>>)>>))>>)

\* const users = createTRPCRouter({ byId: ..., save: ... })
RouterSmall ==
    VariableStatement({}, <<VariableDeclaration("users", {},
        RouterCall(<<ObjectLiteral(<<
            PropertyAssignment("byId", {}, Chain(PublicProcedure, <<Step("query", <<Fn>>)>>)),
            PropertyAssignment("save", {},
                Chain(Base, <<Step("input", <<Schema>>), Step("mutation", <<Fn2>>)>>))>>)>>))>>)

\* the router definitions put in front of a statement
Routers == <<RouterSmall, RouterOpaque, RouterUnbound, RouterNested>>

\* [export] const f = () => {}, sum = (a: A, b): string => a, one = () => 1, ...
Vars(mods) ==
    VariableStatement(mods, <<
        VariableDeclaration("f", {}, ArrowFunction({}, <<>>, NoNode, EmptyBlock)),
        VariableDeclaration("sum", {},
            ArrowFunction({}, <<Parameter("a", RefA), Parameter("b", NoNode)>>,
                          KeywordString, Identifier("a"))),
        VariableDeclaration("one", {}, ArrowFunction({}, <<>>, NoNode, One)),
        VariableDeclaration("Page", {},
            ArrowFunction({}, <<>>, NoNode, Block(<<ReturnStatement(One)>>))),
        VariableDeclaration("sort", {},
            FunctionExpression("", {}, <<Parameter("xs", ArrayType(RefA))>>,
                               ArrayType(RefA), EmptyBlock)),
        VariableDeclaration("alias", {}, FunctionExpression("inner", {}, <<>>, NoNode, EmptyBlock)),
        VariableDeclaration("[h]", {"pattern"}, ArrowFunction({}, <<>>, NoNode, EmptyBlock)),
        VariableDeclaration("count", {}, NumericLiteral("0"))
    >>)

\* [export] const Foo = () => <div/>, foo = () => <div/>, ...,
\* Shell = function inner() {}
VarsJsx(mods) ==
    VariableStatement(mods, <<
        VariableDeclaration("Foo", {}, ArrowFunction({}, <<>>, NoNode, Div)),
        VariableDeclaration("foo", {}, ArrowFunction({}, <<>>, NoNode, Div)),
        VariableDeclaration("wrap", {}, ArrowFunction({}, <<>>, NoNode, Parenthesized(Div))),
        VariableDeclaration("view", {},
            ArrowFunction({}, <<>>, NoNode, Block(<<ReturnStatement(Parenthesized(Div))>>))),
        VariableDeclaration("frag", {},
            FunctionExpression("", {}, <<>>, NoNode, Block(<<ReturnStatement(JsxFragment)>>))),
        VariableDeclaration("nest", {},
            ArrowFunction({}, <<>>, NoNode, Block(<<
                IfStatement(Identifier("c"), Block(<<ReturnStatement(Div)>>)),
                ExpressionStatement(Call(PropertyAccess(Identifier("xs"), "map"),
                    <<FunctionExpression("cb", {}, <<>>, NoNode,
                                         Block(<<ReturnStatement(Div)>>))>>))>>))),
        VariableDeclaration("typed", {},
            ArrowFunction({}, <<>>, TypeReference("Node", <<>>), Div)),
        VariableDeclaration("Shell", {}, FunctionExpression("inner", {}, <<>>, NoNode, EmptyBlock))
    >>)

\* export function Widget(p: { x: A }) { return 1 }, the parameter type
\* written over three lines
FuncWidget ==
    FunctionDeclaration("Widget", {"export"},
        <<Parameter("p", WithText(TypeLiteral(<<PropertySignature("x", FALSE, RefA)>>),
                                  "{\n    x: A\n}"))>>,
        NoNode, Block(<<ReturnStatement(One)>>))

\* export function scoped(x): A | undefined { const inner = () => {} }
FuncScoped ==
    FunctionDeclaration("scoped", {"export"}, <<Parameter("x", NoNode)>>,
        UnionType(<<RefA, OtherType("undefined")>>),
        Block(<<VariableStatement({}, <<VariableDeclaration("inner", {},
                    ArrowFunction({}, <<>>, NoNode, EmptyBlock))>>)>>))

\* export default function () {}
FuncDefault == FunctionDeclaration("", {"export", "default"}, <<>>, NoNode, EmptyBlock)

\* [export] const api = { get: () => 1, Put: function () { return 1 }, ... }
ObjApi(mods) ==
    VariableStatement(mods, <<VariableDeclaration("api", {}, ObjectLiteral(<<
        PropertyAssignment("get", {}, ArrowFunction({}, <<>>, NoNode, One)),
        PropertyAssignment("Put", {},
            FunctionExpression("", {}, <<>>, NoNode, Block(<<ReturnStatement(One)>>))),
        MethodDeclaration("del", {"async"}, <<Parameter("id", KeywordString)>>, NoNode, EmptyBlock),
        MethodDeclaration("View", {}, <<>>, NoNode, Block(<<ReturnStatement(One)>>)),
        PropertyAssignment("x-y", {"stringKey"}, ArrowFunction({}, <<>>, NoNode, EmptyBlock)),
        PropertyAssignment("deep", {}, ObjectLiteral(<<
            PropertyAssignment("leaf", {}, ArrowFunction({}, <<>>, NoNode, EmptyBlock))>>))
    >>))>>)

\* register(function task() {}, app.use(function handler() {}, x => x))
CallStmt ==
    ExpressionStatement(Call(Identifier("register"), <<
        FunctionExpression("task", {}, <<>>, NoNode, EmptyBlock),
        Call(PropertyAccess(Identifier("app"), "use"), <<
            FunctionExpression("handler", {}, <<>>, NoNode, EmptyBlock),
            ArrowFunction({}, <<Parameter("x", NoNode)>>, NoNode, Identifier("x"))>>)>>))

\* export class Store<T extends A> extends Base implements I, J { ... }
ClassStore ==
    ClassDeclaration("Store", {"export"}, <<TypeParameter("T", RefA, NoNode)>>,
        <<HeritageClause("extends", <<"Base">>), HeritageClause("implements", <<"I", "J">>)>>,
        <<PropertyDeclaration("items", {}, ArrayType(RefA)),
          PropertyDeclaration("count", {"static", "?"}, NoNode),
          Constructor(<<Parameter("p", RefA)>>, EmptyBlock),
          MethodDeclaration("get", {}, <<Parameter("id", KeywordString)>>,
                            UnionType(<<RefA, OtherType("undefined")>>), EmptyBlock),
          MethodDeclaration("load", {"async"}, <<>>, NoNode, EmptyBlock),
          MethodDeclaration("make", {"static"}, <<>>, NoNode, Block(<<ReturnStatement(One)>>)),
          MethodDeclaration("send", {"static", "async"}, <<>>,
                            TypeReference("Promise", <<RefA>>), EmptyBlock),
          MethodDeclaration("plain", {}, <<>>, NoNode, Block(<<
              VariableStatement({}, <<VariableDeclaration("o", {}, ObjectLiteral(<<
                  MethodDeclaration("inner", {}, <<>>, NoNode, EmptyBlock),
                  PropertyAssignment("cb", {},
                      FunctionExpression("named", {}, <<>>, NoNode, EmptyBlock)),
                  PropertyAssignment("arrow", {}, ArrowFunction({}, <<>>, NoNode, One))
              >>))>>)>>)),
          MethodDeclaration("[key]", {"computed"}, <<>>, NoNode, EmptyBlock)>>)

\* export default class { size: A; run() {} }
ClassAnon ==
    ClassDeclaration("", {"export", "default"}, <<>>, <<>>,
        <<PropertyDeclaration("size", {}, RefA),
          MethodDeclaration("run", {}, <<>>, NoNode, EmptyBlock)>>)

\* export interface User<T = A> extends Base { id: string; ... }
InterfaceUser ==
    InterfaceDeclaration("User", {"export"}, <<TypeParameter("T", NoNode, RefA)>>,
        <<HeritageClause("extends", <<"Base">>)>>,
        <<PropertySignature("id", FALSE, KeywordString),
          PropertySignature("email", TRUE, UnionType(<<KeywordString, OtherType("null")>>)),
          PropertySignature("roles", FALSE,
              ArrayType(TypeLiteral(<<PropertySignature("tag", FALSE, TupleType(<<RefA, RefA>>))>>))),
          MethodSignature("save", <<Parameter("now", RefA)>>, NoNode),
          IndexSignature(Parameter("key", KeywordString), RefA)>>)

\* type Nullable<T> = { [P in keyof T]: T[P] | null }
TypeNullable == TypeAliasDeclaration("Nullable", {}, <<TypeParameter("T", NoNode, NoNode)>>, MappedP)

\* export enum Direction { Up = 'UP', Down }
EnumDirection ==
    EnumDeclaration("Direction", {"export"},
        <<EnumMember("Up", Node("StringLiteral", "", "'UP'", {}, <<>>)), EnumMember("Down", NoNode)>>)

\* export namespace Types { export interface Config { ... } ... }
NamespaceTypes ==
    ModuleDeclaration("Types", {"export"}, <<
        InterfaceDeclaration("Config", {"export"}, <<>>, <<>>,
            <<PropertySignature("apiKey", FALSE, KeywordString)>>),
        TypeAliasDeclaration("Status", {"export"}, <<>>,
            UnionType(<<OtherType("'active'"), OtherType("'inactive'")>>)),
        ClassDeclaration("K", {}, <<>>, <<>>,
            <<MethodDeclaration("m", {}, <<>>, NoNode, EmptyBlock)>>),
        FunctionDeclaration("util", {"export"}, <<>>, NoNode, EmptyBlock),
        VariableStatement({"export"}, <<VariableDeclaration("v", {},
            ArrowFunction({}, <<>>, NoNode, EmptyBlock))>>)>>)

\* declare module 'asddasd' { export interface SomeType { id: string } }
DeclareModule ==
    ModuleDeclaration("asddasd", {"declare", "stringName"}, <<
        InterfaceDeclaration("SomeType", {"export"}, <<>>, <<>>,
            <<PropertySignature("id", FALSE, KeywordString)>>)>>)

\* the statements without markup: they parse alike in .ts and .tsx files
PlainStatements ==
    {RouterMain, RouterOpaque, RouterUnbound, RouterNested,
     Vars({"export"}), Vars({}), FuncWidget, FuncScoped, FuncDefault,
     ObjApi({"export"}), ObjApi({}), CallStmt, ClassStore, ClassAnon,
     InterfaceUser, TypeNullable, EnumDirection, NamespaceTypes, DeclareModule}

\* the statements with markup: only legal in .tsx files
MarkupStatements == {VarsJsx({"export"}), VarsJsx({})}

\* the sequences of at most n router definitions
RECURSIVE Preambles(_)
Preambles(n) ==
    IF n = 0 THEN {<<>>}
    ELSE Preambles(n - 1) \cup
            {<<Routers[i]>> \o rest : i \in 1..Len(Routers), rest \in Preambles(n - 1)}

CodeFile(ext, statements) == [ext |-> ext, tree |-> SourceFile(statements)]

SourceFiles ==
    {CodeFile(ext, preamble \o <<statement>>) :
        ext \in {".ts", ".tsx"}, preamble \in Preambles(MaxPreamble), statement \in PlainStatements}
    \cup
    {CodeFile(".tsx", preamble \o <<statement>>) :
        preamble \in Preambles(MaxPreamble), statement \in MarkupStatements}

\* the files of the workspaces of more than one file
SampleFiles ==
    {CodeFile(".ts", <<RouterOpaque>>), CodeFile(".ts", <<FuncScoped>>),
     CodeFile(".tsx", <<VarsJsx({})>>), CodeFile(".ts", <<RouterUnbound, ClassAnon, EnumDirection>>)}

Workspaces ==
    {<<file>> : file \in SourceFiles}
        \cup UNION {[1..n -> SampleFiles] : n \in 2..MaxFiles}

(***************************************************************************)
(* The tree walker: one call of visit (parser.ts:459-562)                  *)
(***************************************************************************)
\* router definition detection (parser.ts:472-483): the router name after it
DetectRouter(sourceFile, path, routerName) ==
    LET node == NodeAt(sourceFile, path)
        declarations == KidsIn(KidIn(node, "declarationList"), "declarations")
        declaration == declarations[1]
        callExpr == KidIn(declaration, "initializer")
    IN  IF /\ node.kind = "VariableStatement"
           /\ Len(declarations) > 0
           /\ Present(callExpr)
           /\ callExpr.kind = "CallExpression"
           /\ GetText(KidIn(callExpr, "expression")) = "createTRPCRouter"
           /\ HasIdentifierName(declaration)
        THEN declaration.name
        ELSE routerName

\* type definition extraction (parser.ts:485-521): what is pushed on types
VisitType(sourceFile, path, filePath, typeDepth) ==
    LET node == NodeAt(sourceFile, path)
    IN  CASE node.kind = "InterfaceDeclaration" ->
                extractInterfaceSignature(sourceFile, path, filePath, typeDepth)
          [] node.kind = "TypeAliasDeclaration" ->
                extractTypeAliasSignature(sourceFile, path, filePath, typeDepth)
          [] node.kind = "EnumDeclaration" -> extractEnumSignature(sourceFile, path, filePath)
          [] node.kind = "ClassDeclaration" ->
                extractClassSignature(sourceFile, path, filePath, typeDepth)
          [] node.kind = "ModuleDeclaration" ->
                IF "stringName" \in node.mods
                THEN extractModuleSignature(sourceFile, path, filePath)
                ELSE extractNamespaceSignature(sourceFile, path, filePath)
          [] OTHER -> <<>>

\* standard function/method detection (parser.ts:523-541): what is pushed
\* on signatures
VisitFunction(sourceFile, path, filePath, routerName) ==
    LET node == NodeAt(sourceFile, path)
    IN  IF node.kind \in {"FunctionDeclaration", "FunctionExpression",
                          "ArrowFunction", "MethodDeclaration"}
        THEN IF node.kind = "MethodDeclaration" /\ isInsideClassDeclaration(sourceFile, path)
             THEN <<>>
             ELSE IF ~isInsideTrpcProcedureChain(sourceFile, path)
                  THEN extractFunctionSignature(sourceFile, path, filePath, routerName)
                  ELSE <<>>
        ELSE <<>>

\* the condition of the router procedure detection (parser.ts:544)
IsRouterObject(sourceFile, path, routerName) ==
    /\ Truthy(routerName)
    /\ NodeAt(sourceFile, path).kind = "ObjectLiteralExpression"
    /\ path # <<>>
    /\ KindAt(sourceFile, path, Len(path) - 1) = "CallExpression"
    /\ GetText(KidIn(NodeAt(sourceFile, ParentPath(path)), "expression")) = "createTRPCRouter"

\* the loop over the router's properties (parser.ts:546-554): what is
\* pushed on signatures
RECURSIVE VisitProcedures(_, _, _)
VisitProcedures(properties, filePath, routerName) ==
    IF properties = <<>> THEN <<>>
    ELSE (IF Head(properties).kind = "PropertyAssignment" /\ HasIdentifierName(Head(properties))
          THEN extractTrpcProcedureSignature(Head(properties), filePath, routerName)
          ELSE <<>>)
            \o VisitProcedures(Tail(properties), filePath, routerName)

(***************************************************************************)
(* The workspace                                                           *)
(***************************************************************************)
\* the path of the i-th file of the workspace
FilePath(i) == "/w/f" \o ToString(i) \o files[i].ext

\* the two latest elements of a sequence
LatestTwo(s) == IF Len(s) > 2 THEN SubSeq(s, Len(s) - 1, Len(s)) ELSE s

(***************************************************************************)
(* Actions                                                                 *)
(***************************************************************************)
typeVars == <<tnode, tdepth, tout, tprev>>

hostVars == <<files, pc, fileIdx, allSignatures, allTypes>>

parseVars == <<stack, currentRouterName, signatures, types>>

historyVars == <<visited, signaturesAt, typesAt, results, thrown>>

scanVars == <<blacklist, normalizedBlacklist, ignorePatterns>>

vars == <<hostVars, parseVars, historyVars, typeVars, scanVars>>

TypeIdle ==
    /\ tnode = NoNode
    /\ tdepth = 0
    /\ tout = Undefined
    /\ tprev = Undefined

Init ==
    /\ files \in Workspaces
    /\ pc = "idle"
    /\ fileIdx = 1
    /\ allSignatures = <<>>
    /\ allTypes = <<>>
    /\ stack = <<>>
    /\ currentRouterName = Undefined
    /\ signatures = <<>>
    /\ types = <<>>
    /\ visited = <<>>
    /\ signaturesAt = <<>>
    /\ typesAt = <<>>
    /\ results = [i \in 1..Len(files) |-> <<>>]
    /\ thrown = {}
    /\ TypeIdle
    /\ blacklist = <<>>
    /\ normalizedBlacklist = <<>>
    /\ ignorePatterns = <<>>

\* the get-project-structure handler is called and has scanned the
\* workspace (init.ts:165-239)
GetProjectStructure ==
    /\ pc = "idle"
    /\ pc' = "loop"
    /\ fileIdx' = 1
    /\ allSignatures' = <<>>
    /\ allTypes' = <<>>
    /\ thrown' = {}
    /\ UNCHANGED <<files, parseVars, visited, signaturesAt, typesAt, results, typeVars, scanVars>>

\* faulty variant of ParseFile: the active router name outlives the call
ParseFileKeepsRouterName ==
    /\ pc = "loop"
    /\ fileIdx <= Len(files)
    /\ pc' = "visit"
    /\ signatures' = <<>>
    /\ types' = <<>>
    /\ stack' = << <<>> >>
    /\ visited' = <<>>
    /\ signaturesAt' = <<>>
    /\ typesAt' = <<>>
    /\ UNCHANGED <<files, fileIdx, allSignatures, allTypes, currentRouterName, results, thrown, typeVars, scanVars>>

\* the loop calls parseFile(file): the locals of the call are set up
\* (parser.ts:447-457) and visit(sourceFile) is about to run (parser.ts:564)
ParseFile ==
    /\ pc = "loop"
    /\ fileIdx <= Len(files)
    /\ pc' = "visit"
    /\ signatures' = <<>>
    /\ types' = <<>>
    /\ currentRouterName' = Undefined
    /\ stack' = << <<>> >>
    /\ visited' = <<>>
    /\ signaturesAt' = <<>>
    /\ typesAt' = <<>>
    /\ UNCHANGED <<files, fileIdx, allSignatures, allTypes, results, thrown, typeVars, scanVars>>

\* faulty variant of Visit: the children wait behind the nodes already
\* pending instead of being visited before them
VisitChildrenLast ==
    /\ pc = "visit"
    /\ stack # <<>>
    /\ LET path == Head(stack)
           sourceFile == files[fileIdx].tree
           node == NodeAt(sourceFile, path)
           routerName == DetectRouter(sourceFile, path, currentRouterName)
           typeSignatures == VisitType(sourceFile, path, FilePath(fileIdx), DEFAULT_TYPE_DEPTH)
           functions == VisitFunction(sourceFile, path, FilePath(fileIdx), routerName)
           routerObject == IsRouterObject(sourceFile, path, routerName)
           procedures ==
                IF routerObject
                THEN VisitProcedures(KidsIn(node, "properties"), FilePath(fileIdx), routerName)
                ELSE <<>>
       IN  /\ types' = types \o typeSignatures
           /\ signatures' = signatures \o functions \o procedures
           /\ currentRouterName' = IF routerObject THEN Undefined ELSE routerName
           /\ stack' = Tail(stack) \o [i \in 1..Len(node.kids) |-> Append(path, i)]
           /\ visited' = Append(visited, path)
           /\ typesAt' = typesAt \o [i \in 1..Len(typeSignatures) |-> path]
           /\ signaturesAt' = signaturesAt \o [i \in 1..Len(functions \o procedures) |-> path]
    /\ UNCHANGED <<hostVars, results, thrown, typeVars, scanVars>>

\* visit(node) for the next node: everything up to ts.forEachChild(node,
\* visit), whose calls are the children put on the stack
Visit ==
    /\ pc = "visit"
    /\ stack # <<>>
    /\ LET path == Head(stack)
           sourceFile == files[fileIdx].tree
           node == NodeAt(sourceFile, path)
           routerName == DetectRouter(sourceFile, path, currentRouterName)
           typeSignatures == VisitType(sourceFile, path, FilePath(fileIdx), DEFAULT_TYPE_DEPTH)
           functions == VisitFunction(sourceFile, path, FilePath(fileIdx), routerName)
           routerObject == IsRouterObject(sourceFile, path, routerName)
           procedures ==
                IF routerObject
                THEN VisitProcedures(KidsIn(node, "properties"), FilePath(fileIdx), routerName)
                ELSE <<>>
       IN  /\ types' = types \o typeSignatures
           /\ signatures' = signatures \o functions \o procedures
           /\ currentRouterName' = IF routerObject THEN Undefined ELSE routerName
           /\ stack' = [i \in 1..Len(node.kids) |-> Append(path, i)] \o Tail(stack)
           /\ visited' = Append(visited, path)
           /\ typesAt' = typesAt \o [i \in 1..Len(typeSignatures) |-> path]
           /\ signaturesAt' = signaturesAt \o [i \in 1..Len(functions \o procedures) |-> path]
    /\ UNCHANGED <<hostVars, results, thrown, typeVars, scanVars>>

\* parseFile returns (parser.ts:565) and the loop appends its lists to the
\* aggregated ones (init.ts:241-249)
Return ==
    /\ pc = "visit"
    /\ stack = <<>>
    /\ allSignatures' = allSignatures \o signatures
    /\ allTypes' = allTypes \o types
    /\ results' = [results EXCEPT ![fileIdx] =
                      LatestTwo(Append(@, [functions |-> signatures, types |-> types]))]
    /\ fileIdx' = fileIdx + 1
    /\ pc' = "loop"
    /\ UNCHANGED <<files, parseVars, visited, signaturesAt, typesAt, thrown, typeVars, scanVars>>

\* faulty variant of ParseFileThrows: the failure ends the loop
ParseFileThrowsEndsLoop ==
    /\ pc = "loop"
    /\ fileIdx <= Len(files)
    /\ thrown' = thrown \cup {fileIdx}
    /\ fileIdx' = Len(files) + 1
    /\ UNCHANGED <<files, pc, allSignatures, allTypes, parseVars,
                   visited, signaturesAt, typesAt, results, typeVars, scanVars>>

\* the loop calls parseFile(file) and fs.readFileSync throws (parser.ts:448):
\* the catch clause logs the error and the loop goes on with the next file
\* (init.ts:250-253)
ParseFileThrows ==
    /\ pc = "loop"
    /\ fileIdx <= Len(files)
    /\ thrown' = thrown \cup {fileIdx}
    /\ fileIdx' = fileIdx + 1
    /\ UNCHANGED <<files, pc, allSignatures, allTypes, parseVars,
                   visited, signaturesAt, typesAt, results, typeVars, scanVars>>

\* the loop is over and the handler answers (init.ts:257-290)
Respond ==
    /\ pc = "loop"
    /\ fileIdx > Len(files)
    /\ pc' = "idle"
    /\ UNCHANGED <<files, fileIdx, allSignatures, allTypes, parseVars, historyVars, typeVars, scanVars>>

Next == GetProjectStructure \/ ParseFile \/ ParseFileThrows \/ Visit \/ Return \/ Respond

Spec == Init /\ [][Next]_vars

(***************************************************************************)
(* TypeSpec: a caller renders one type expression, first at any depth      *)
(* budget and then again with the budget raised by one.                    *)
(***************************************************************************)
TypeInit ==
    /\ tnode \in TypeExpressions(MaxTypeNesting)
    /\ tdepth = 0
    /\ tout = Undefined
    /\ tprev = Undefined
    /\ files = <<>>
    /\ pc = "idle"
    /\ fileIdx = 1
    /\ allSignatures = <<>>
    /\ allTypes = <<>>
    /\ stack = <<>>
    /\ currentRouterName = Undefined
    /\ signatures = <<>>
    /\ types = <<>>
    /\ visited = <<>>
    /\ signaturesAt = <<>>
    /\ typesAt = <<>>
    /\ results = <<>>
    /\ thrown = {}
    /\ blacklist = <<>>
    /\ normalizedBlacklist = <<>>
    /\ ignorePatterns = <<>>

\* simplifyType(node, sourceFile, depth)
Render ==
    /\ tout = Undefined
    /\ \E depth \in (0 - 1)..MaxRenderDepth :
          /\ tdepth' = depth
          /\ tout' = simplifyType(tnode, depth)
    /\ UNCHANGED <<tnode, tprev, hostVars, parseVars, historyVars, scanVars>>

\* simplifyType(node, sourceFile, depth + 1) on the node rendered before
RenderDeeper ==
    /\ tout # Undefined
    /\ tprev = Undefined
    /\ tdepth < MaxRenderDepth
    /\ tdepth' = tdepth + 1
    /\ tprev' = tout
    /\ tout' = simplifyType(tnode, tdepth + 1)
    /\ UNCHANGED <<tnode, hostVars, parseVars, historyVars, scanVars>>

TypeNext == Render \/ RenderDeeper

TypeSpec == TypeInit /\ [][TypeNext]_vars

(***************************************************************************)
(* ScanSpec: getCodeFiles is handed a list of exclusion entries, brings    *)
(* them to glob form one by one and merges them with its fixed patterns.   *)
(***************************************************************************)
\* the fixed exclusion patterns (file-scanner.ts:22-66)
baseIgnore ==
    <<"**/src/components/ui/**", "**/node_modules/**", "**/dist/**", "**/build/**",
       "**/.next/**", "**/.turbo/**", "**/.cache/**", "**/.yarn/**",
       "**/.pnpm/**", "**/.eslintcache/**", "**/.vite/**", "**/.output/**",
       "**/.vercel/**", "**/.firebase/**", "**/.aws-sam/**", "**/.serverless/**",
       "**/.tmp/**", "**/.temp/**", "**/.env*/**", "**/.idea/**",
       "**/.vscode/**", "**/.history/**", "**/.git/**", "**/.husky/**",
       "**/.storybook/**", "**/.config/**", "**/.settings/**", "**/.local/**",
       "**/.DS_Store/**", "**/.coverage/**", "**/.nyc_output/**", "**/.svelte-kit/**",
       "**/.expo/**", "**/.expo-shared/**", "**/.firebase/**", "**/.cypress/**",
       "**/.playwright/**", "**/.test/**", "**/.test-results/**", "**/.reports/**",
       "**/.snapshots/**", "**/.mocks/**", "**/.cache-loader/**">>

\* the exclusion entries the callers hand over: with a wildcard, with the
\* '**/' prefix, bare, with a dot, with a trailing slash, with both
BlacklistEntries ==
    {"*.test.ts", "**/gen/", "dist", "config.json", "docs/", "my.dir/", ".git"}

\* a faulty variant of normalizePattern: every entry with a dot is a file
normalizePatternDotIsFile(pattern) ==
    IF Includes(pattern, "*") \/ StartsWith(pattern, "**/") THEN pattern
    ELSE IF ~Includes(pattern, ".") THEN "**/" \o pattern \o "**"
    ELSE "**/" \o pattern

\* the callback of blacklist.map (file-scanner.ts:69-81)
normalizePattern(pattern) ==
    IF Includes(pattern, "*") \/ StartsWith(pattern, "**/") THEN pattern
    ELSE IF EndsWith(pattern, "/") \/ ~Includes(pattern, ".") THEN "**/" \o pattern \o "**"
    ELSE "**/" \o pattern

ScanInit ==
    /\ blacklist \in UNION {[1..n -> BlacklistEntries] : n \in 0..MaxBlacklist}
    /\ normalizedBlacklist = <<>>
    /\ ignorePatterns = <<>>
    /\ TypeIdle
    /\ files = <<>>
    /\ pc = "idle"
    /\ fileIdx = 1
    /\ allSignatures = <<>>
    /\ allTypes = <<>>
    /\ stack = <<>>
    /\ currentRouterName = Undefined
    /\ signatures = <<>>
    /\ types = <<>>
    /\ visited = <<>>
    /\ signaturesAt = <<>>
    /\ typesAt = <<>>
    /\ results = <<>>
    /\ thrown = {}

\* blacklist.map calls its callback on the next entry (file-scanner.ts:69-81)
NormalizeEntry ==
    /\ Len(normalizedBlacklist) < Len(blacklist)
    /\ normalizedBlacklist' =
            Append(normalizedBlacklist,
                   normalizePattern(blacklist[Len(normalizedBlacklist) + 1]))
    /\ UNCHANGED <<blacklist, ignorePatterns, hostVars, parseVars, historyVars, typeVars>>

\* the fixed patterns and the normalised entries are merged (file-scanner.ts:84)
MergePatterns ==
    /\ Len(normalizedBlacklist) = Len(blacklist)
    /\ ignorePatterns = <<>>
    /\ ignorePatterns' = baseIgnore \o normalizedBlacklist
    /\ UNCHANGED <<blacklist, normalizedBlacklist, hostVars, parseVars, historyVars, typeVars>>

ScanNext == NormalizeEntry \/ MergePatterns

ScanSpec == ScanInit /\ [][ScanNext]_vars

(***************************************************************************)
(* Properties of parseFile and of the handler's loop, checked under Spec   *)
(***************************************************************************)
\* the tree of the file being parsed
Tree == files[fileIdx].tree

Parsing == pc = "visit"

\* parseFile has visited its last node and is about to return
Parsed == pc = "visit" /\ stack = <<>>

Range(s) == {s[i] : i \in 1..Len(s)}

\* p is a proper ancestor of q
IsAncestor(p, q) == Len(p) < Len(q) /\ Prefix(q, Len(p)) = p

Callables == {"FunctionDeclaration", "FunctionExpression", "ArrowFunction", "MethodDeclaration"}

\* the node at p is an object literal handed to createTRPCRouter
IsRouterArgument(p) ==
    /\ NodeAt(Tree, p).kind = "ObjectLiteralExpression"
    /\ KindAt(Tree, p, Len(p) - 1) = "CallExpression"
    /\ GetText(KidIn(NodeAt(Tree, ParentPath(p)), "expression")) = "createTRPCRouter"

\* the paths of the visited object literals handed to createTRPCRouter
RouterObjects == {p \in Range(visited) : IsRouterArgument(p)}

\* the paths of the entries name: value of the visited router objects
RouterEntries ==
    UNION {{Append(p, k) : k \in {j \in 1..Len(NodeAt(Tree, p).kids) :
                                    NodeAt(Tree, p).kids[j].kind = "PropertyAssignment"}} :
           p \in RouterObjects}

\* the method names of a call chain, outermost call first
RECURSIVE ChainMethods(_)
ChainMethods(expr) ==
    IF expr.kind = "CallExpression" /\ KidIn(expr, "expression").kind = "PropertyAccessExpression"
    THEN <<KidIn(expr, "expression").name>>
            \o ChainMethods(KidIn(KidIn(expr, "expression"), "expression"))
    ELSE <<>>

\* the method names of the chain of a router entry
EntryMethods(entry) == ChainMethods(KidIn(NodeAt(Tree, entry), "initializer"))

\* the procedure signatures pushed for a router entry
ProceduresOf(entry) ==
    {i \in 1..Len(signatures) :
        /\ signatures[i].isTrpcProcedure
        /\ signaturesAt[i] = ParentPath(entry)
        /\ signatures[i].name = NodeAt(Tree, entry).name}

\* C1: every function signature emitted with isTrpcProcedure = true has
\* procedureType 'query' or 'mutation', in the list parseFile builds and in
\* the list the handler aggregates; no entry is emitted with an unset kind.
C1_ProcedureKindSet ==
    /\ \A i \in 1..Len(signatures) :
          signatures[i].isTrpcProcedure => signatures[i].procedureType \in {"query", "mutation"}
    /\ \A i \in 1..Len(allSignatures) :
          allSignatures[i].isTrpcProcedure
              => allSignatures[i].procedureType \in {"query", "mutation"}

\* a router with an entry whose chain records no kind has been walked and
\* procedures of its other entries are emitted
C1_Witness ==
    /\ Parsing
    /\ \E entry \in RouterEntries :
          /\ EntryMethods(entry) # <<>>
          /\ Range(EntryMethods(entry)) \cap {"query", "mutation"} = {}
          /\ \E i \in 1..Len(signatures) :
                signatures[i].isTrpcProcedure /\ signaturesAt[i] = ParentPath(entry)

\* C2: for a router entry whose chain holds both a mutation call and a query
\* call, the emitted procedureType is that of the outermost of the two; the
\* entry base.input(Schema).mutation(fn).query(fn2) is emitted as a query
\* with hasInput = true and inputSchemaName = 'Schema'.
C2_OutermostKindWins ==
    Parsing => \A entry \in RouterEntries : \A i \in ProceduresOf(entry) :
        LET methods == EntryMethods(entry)
            kinds == SelectSeq(methods, LAMBDA m : m \in {"query", "mutation"})
        IN  /\ {"query", "mutation"} \subseteq Range(methods)
                => signatures[i].procedureType = kinds[1]
            /\ methods = <<"query", "mutation", "input">>
                => /\ signatures[i].procedureType = "query"
                   /\ signatures[i].hasInput = TRUE
                   /\ signatures[i].inputSchemaName = "Schema"

\* C3: when parseFile returns, a router entry whose chain holds no query and
\* no mutation step has added nothing to the functions list: no procedure
\* for the entry and no function signature for any callable inside the entry.
C3_NoKindNoEntry ==
    Parsed => \A entry \in RouterEntries :
        Range(EntryMethods(entry)) \cap {"query", "mutation"} = {}
            => /\ ProceduresOf(entry) = {}
               /\ \A i \in 1..Len(signatures) : ~IsAncestor(entry, signaturesAt[i])

\* the file is walked to its end, it has a router entry base.input(Schema)
\* .use(function ...) whose function argument was visited, and the router's
\* other entries are emitted
C3_Witness ==
    /\ Parsed
    /\ \E entry \in RouterEntries :
          /\ EntryMethods(entry) = <<"use", "input">>
          /\ \E p \in Range(visited) :
                IsAncestor(entry, p) /\ NodeAt(Tree, p).kind \in Callables
          /\ \E i \in 1..Len(signatures) : signaturesAt[i] = ParentPath(entry)

\* the visited class declarations that have a name
NamedClasses == {p \in Range(visited) : NodeAt(Tree, p).kind = "ClassDeclaration"
                                            /\ NodeAt(Tree, p).name # ""}

\* the positions of the method declarations among the members of a class
MethodsOf(class) ==
    {k \in 1..Len(NodeAt(Tree, class).kids) :
        NodeAt(Tree, class).kids[k].kind = "MethodDeclaration"}

\* C4: when parseFile returns, for every named class declaration exactly one
\* type signature is emitted, of kind 'class', whose fullSignature lists every method
\* declaration of the class; no function signature is emitted for a method.
C4_ClassOnceMethodsNever ==
    Parsed => \A class \in NamedClasses :
        /\ Cardinality({i \in 1..Len(types) : typesAt[i] = class}) = 1
        /\ \A i \in 1..Len(types) :
              typesAt[i] = class =>
                 /\ types[i].kind = "class"
                 /\ types[i].name = NodeAt(Tree, class).name
                 /\ \A k \in MethodsOf(class) :
                       Includes(types[i].fullSignature,
                                NodeAt(Tree, class).kids[k].name \o "(")
        /\ \A k \in MethodsOf(class) :
              \A i \in 1..Len(signatures) : signaturesAt[i] # Append(class, k)

\* a file with a named class of at least two methods is walked to its end
C4_Witness ==
    /\ Parsed
    /\ \E class \in NamedClasses :
          /\ Cardinality(MethodsOf(class)) >= 2
          /\ \A k \in MethodsOf(class) : Append(class, k) \in Range(visited)
          /\ \E i \in 1..Len(types) : typesAt[i] = class

\* the emitted signatures of the arrow functions bound to a variable of a
\* top-level variable statement
TopLevelArrows ==
    {i \in 1..Len(signatures) :
        /\ Len(signaturesAt[i]) = 4
        /\ NodeAt(Tree, signaturesAt[i]).kind = "ArrowFunction"
        /\ KindAt(Tree, signaturesAt[i], 3) = "VariableDeclaration"
        /\ KindAt(Tree, signaturesAt[i], 1) = "VariableStatement"}

\* C5: the signature of an arrow function bound to a top-level variable has
\* isExported = true when the variable statement carries an export or
\* default modifier and isExported = false otherwise.
C5_ExportFollowsStatement ==
    Parsing => \A i \in TopLevelArrows :
        signatures[i].isExported
            = (NodeAt(Tree, Prefix(signaturesAt[i], 1)).mods \cap {"export", "default"} # {})

\* the arrow of export const f = () => {} is emitted as exported
C5_Witness ==
    Parsing /\ \E i \in TopLevelArrows :
        /\ signatures[i].name = "f"
        /\ "export" \in NodeAt(Tree, Prefix(signaturesAt[i], 1)).mods
        /\ signatures[i].isExported = TRUE

\* C6: in a .tsx or .jsx file every concise arrow function without return
\* annotation whose body is a markup element gets returnType
\* 'React.JSX.Element', whatever the case of the name it is bound to.
C6_ConciseMarkupArrow ==
    Parsing => \A i \in 1..Len(signatures) :
        LET node == NodeAt(Tree, signaturesAt[i])
        IN  (/\ files[fileIdx].ext \in {".tsx", ".jsx"}
             /\ ~signatures[i].isTrpcProcedure
             /\ node.kind = "ArrowFunction"
             /\ ~Present(KidIn(node, "type"))
             /\ KidIn(node, "body").kind \in JsxKinds)
                => signatures[i].returnType = "React.JSX.Element"

\* the fullSignature strings of a list of signatures, in the order of the list
FullSignatures(list) == [i \in 1..Len(list) |-> list[i].fullSignature]

SameSignatures(a, b) ==
    /\ FullSignatures(a.functions) = FullSignatures(b.functions)
    /\ FullSignatures(a.types) = FullSignatures(b.types)

\* C9: parseFile is deterministic and keeps nothing between calls: any two
\* calls on identical source text, whatever was parsed between them, return
\* lists with the same fullSignature strings in the same order, and the
\* active router name is unset when a call starts.
C9_Deterministic ==
    /\ \A i \in 1..Len(files) : \A j \in 1..Len(files) :
          files[i] = files[j] =>
              \A a \in 1..Len(results[i]) : \A b \in 1..Len(results[j]) :
                  SameSignatures(results[i][a], results[j][b])
    /\ (Parsing /\ visited = <<>>) => currentRouterName = Undefined

\* a file that yields signatures was parsed twice, and between its two
\* parses a router handed something else than an object was parsed
C9_Witness ==
    /\ Len(files) > 1
    /\ Len(results[1]) = 2
    /\ results[1][1].functions # <<>>
    /\ Len(results[Len(files)]) > 0
    /\ \E k \in 1..Len(files[Len(files)].tree.kids) :
          DetectRouter(files[Len(files)].tree, <<k>>, Undefined) # Undefined
    /\ results[Len(files)][1].functions = <<>>

\* p comes before q in the pre-order of the tree
PreOrderBefore(p, q) ==
    \/ IsAncestor(p, q)
    \/ \E k \in 1..Min(Len(p), Len(q)) :
          /\ Prefix(p, k - 1) = Prefix(q, k - 1)
          /\ p[k] < q[k]

\* the number of nodes of a tree
RECURSIVE Size(_)
Size(node) ==
    IF node.kids = <<>> THEN 1
    ELSE Size(Head(node.kids)) + Size([node EXCEPT !.kids = Tail(node.kids)])

\* p is the path of a node of the tree being parsed
IsNode(p) == \A k \in 1..Len(p) : p[k] \in 1..Len(NodeAt(Tree, Prefix(p, k - 1)).kids)

\* the declaration kind a type signature of the given kind is built from
DeclarationKind(kind) ==
    CASE kind = "interface" -> "InterfaceDeclaration"
      [] kind = "type"      -> "TypeAliasDeclaration"
      [] kind = "enum"      -> "EnumDeclaration"
      [] kind = "class"     -> "ClassDeclaration"
      [] OTHER              -> "ModuleDeclaration"

\* the position of the entry of the given name among the properties of a
\* router object
EntryPosition(object, name) ==
    CHOOSE k \in 1..Len(NodeAt(Tree, object).kids) : NodeAt(Tree, object).kids[k].name = name

\* C10: when parseFile returns, the walker has visited the nodes of the tree
\* in pre-order (from the root, each node followed by its pre-order
\* successor, so none twice), all of them; the functions list and the types list are ordered
\* by the pre-order position of the node visited when the entry was pushed,
\* which is the callable itself for a function, the declaration for a type,
\* and the router's object literal for its procedures, pushed in property
\* order.
C10_PreOrder ==
    Parsed =>
        /\ \A i \in 1..(Len(visited) - 1) : PreOrderBefore(visited[i], visited[i + 1])
        /\ \A i \in 1..Len(visited) : IsNode(visited[i])
        /\ visited # <<>> => visited[1] = <<>>
        /\ \A i \in 1..(Len(visited) - 1) :
              \* the next node in pre-order: the first child, or else the next
              \* sibling of the nearest ancestor-or-self that has one
              LET p == visited[i]
                  q == visited[i + 1]
              IN  IF NodeAt(Tree, p).kids # <<>> THEN q = Append(p, 1)
                  ELSE /\ Len(q) <= Len(p)
                       /\ Len(q) > 0
                       /\ ParentPath(q) = Prefix(p, Len(q) - 1)
                       /\ q[Len(q)] = p[Len(q)] + 1
                       /\ \A k \in (Len(q) + 1)..Len(p) :
                             p[k] = Len(NodeAt(Tree, Prefix(p, k - 1)).kids)
        /\ Len(visited) = Size(Tree)
        /\ Len(signaturesAt) = Len(signatures)
        /\ Len(typesAt) = Len(types)
        /\ \A i \in 1..(Len(signatures) - 1) :
              \/ PreOrderBefore(signaturesAt[i], signaturesAt[i + 1])
              \/ /\ signaturesAt[i] = signaturesAt[i + 1]
                 /\ signatures[i].isTrpcProcedure
                 /\ signatures[i + 1].isTrpcProcedure
                 /\ EntryPosition(signaturesAt[i], signatures[i].name)
                        < EntryPosition(signaturesAt[i], signatures[i + 1].name)
        /\ \A i \in 1..(Len(types) - 1) : PreOrderBefore(typesAt[i], typesAt[i + 1])
        /\ \A i \in 1..Len(signatures) :
              /\ signaturesAt[i] \in Range(visited)
              /\ IF signatures[i].isTrpcProcedure
                 THEN IsRouterArgument(signaturesAt[i])
                 ELSE NodeAt(Tree, signaturesAt[i]).kind \in Callables
        /\ \A i \in 1..Len(types) :
              /\ typesAt[i] \in Range(visited)
              /\ NodeAt(Tree, typesAt[i]).kind = DeclarationKind(types[i].kind)

\* a file is walked to its end in which several procedures were pushed for
\* a router and a function after them, and nodes on more than one branch
\* of the tree were covered
C10_Witness ==
    /\ Parsed
    /\ Len(visited) = Size(Tree)
    /\ \E i \in 1..Len(signatures) : \E j \in 1..Len(signatures) :
          /\ i < j
          /\ signatures[i].isTrpcProcedure
          /\ ~signatures[j].isTrpcProcedure
    /\ \E i \in 1..(Len(signatures) - 1) :
          signatures[i].isTrpcProcedure /\ signaturesAt[i] = signaturesAt[i + 1]
    /\ \E i \in 1..Len(visited) : \E j \in 1..Len(visited) :
          i < j /\ ~IsAncestor(visited[i], visited[j])

\* the concatenation of a list of lists
RECURSIVE Flatten(_)
Flatten(lists) == IF lists = <<>> THEN <<>> ELSE Head(lists) \o Flatten(Tail(lists))

\* the files the loop is through with in this run, without those whose
\* parseFile call threw, in file order
Survivors == SelectSeq([i \in 1..(fileIdx - 1) |-> i], LAMBDA i : i \notin thrown)

\* what the latest parseFile call on the i-th file returned
Latest(i) == results[i][Len(results[i])]

\* C11: in the handler's loop over the files, a parseFile call that throws
\* adds nothing to the aggregated lists and does not stop the loop: the
\* aggregated function and type lists are the results of the files that did
\* not throw, in file order, and every file the loop is through with either
\* threw or was parsed.
C11_FailuresSkipped ==
    /\ \A i \in Range(Survivors) : results[i] # <<>>
    /\ (\A i \in Range(Survivors) : results[i] # <<>>) =>
          /\ allSignatures =
                Flatten([k \in 1..Len(Survivors) |-> Latest(Survivors[k]).functions])
          /\ allTypes =
                Flatten([k \in 1..Len(Survivors) |-> Latest(Survivors[k]).types])

\* the loop is over: the first file threw, the file after it was parsed and
\* its signatures are the aggregated ones
C11_Witness ==
    /\ pc = "loop"
    /\ fileIdx > Len(files)
    /\ thrown = {1}
    /\ Len(files) > 1
    /\ allSignatures # <<>>
    /\ allSignatures = Latest(Len(files)).functions

\* the paths of the nodes of a tree
RECURSIVE Paths(_)
Paths(node) ==
    {<<>>} \cup UNION {{<<k>> \o q : q \in Paths(node.kids[k])} : k \in 1..Len(node.kids)}

\* the visited class declarations without a name
AnonymousClasses == {p \in Range(visited) : NodeAt(Tree, p).kind = "ClassDeclaration"
                                                /\ NodeAt(Tree, p).name = ""}

\* C13: a class declaration without a name yields no type signature and no
\* function signature for any of its methods, and when parseFile returns
\* every node that follows the class in the tree has been visited.
C13_AnonymousClassSkipped ==
    Parsing => \A class \in AnonymousClasses :
        /\ \A i \in 1..Len(types) : typesAt[i] # class
        /\ \A k \in MethodsOf(class) :
              \A i \in 1..Len(signatures) : signaturesAt[i] # Append(class, k)
        /\ Parsed => \A q \in Paths(Tree) : PreOrderBefore(class, q) => q \in Range(visited)

\* a file with a class without a name, which has a method, is walked to its
\* end, and a declaration after the class yielded a type signature
C13_Witness ==
    /\ Parsed
    /\ \E class \in AnonymousClasses :
          /\ MethodsOf(class) # {}
          /\ \A k \in MethodsOf(class) : Append(class, k) \in Range(visited)
          /\ \E i \in 1..Len(types) :
                ~IsAncestor(class, typesAt[i]) /\ PreOrderBefore(class, typesAt[i])

\* the declaration is named by a plain identifier
IdentifierNamed(node) ==
    /\ node.name # ""
    /\ "pattern" \notin node.mods
    /\ "stringKey" \notin node.mods
    /\ "computed" \notin node.mods

\* the callable at p has a name of its own or takes the name of the
\* variable or property it is the direct initializer of
Nameable(p) ==
    LET node == NodeAt(Tree, p)
        parent == NodeAt(Tree, ParentPath(p))
    IN  \/ node.kind = "FunctionDeclaration" /\ node.name # ""
        \/ node.kind = "MethodDeclaration" /\ IdentifierNamed(node)
        \/ node.kind = "FunctionExpression" /\ node.name # ""
        \/ /\ parent.kind \in {"VariableDeclaration", "PropertyAssignment"}
           /\ IdentifierNamed(parent)
           /\ node.role = "initializer"

\* the visited callables
VisitedCallables == {p \in Range(visited) : NodeAt(Tree, p).kind \in Callables}

\* C14: every emitted function signature has a non-empty name, and a
\* callable that is neither a named function declaration, an
\* identifier-named method, a named function expression nor the direct
\* initializer of an identifier-named variable declaration or property
\* assignment yields no signature.
C14_NamedOrNothing ==
    Parsing =>
        /\ \A i \in 1..Len(signatures) : signatures[i].name # ""
        /\ \A p \in VisitedCallables :
              ~Nameable(p) => \A i \in 1..Len(signatures) : signaturesAt[i] # p

\* a variable declared by a pattern and initialised by an arrow function was
\* visited after a callable of the same statement had yielded a signature
C14_Witness ==
    /\ Parsing
    /\ signatures # <<>>
    /\ \E p \in VisitedCallables :
          /\ NodeAt(Tree, ParentPath(p)).kind = "VariableDeclaration"
          /\ "pattern" \in NodeAt(Tree, ParentPath(p)).mods
          /\ ~Nameable(p)
          /\ \E i \in 1..Len(signatures) :
                Len(signaturesAt[i]) = Len(p) /\ Prefix(signaturesAt[i], 2) = Prefix(p, 2)

\* the 'query' and 'mutation' steps of the chain of a router entry, in the
\* order of the walk from the outermost call inward
KindSteps(entry) == SelectSeq(EntryMethods(entry), LAMBDA name : name \in {"query", "mutation"})

\* C15: the chain of a router entry is walked from its outermost call
\* inward and every 'query' or 'mutation' step overwrites the kind: the
\* procedureType of the entry is the kind of the last such step of the walk.
C15_LastKindStepWins ==
    Parsing => \A entry \in RouterEntries : \A i \in ProceduresOf(entry) :
        /\ KindSteps(entry) # <<>>
        /\ signatures[i].procedureType = KindSteps(entry)[Len(KindSteps(entry))]

\* an entry whose chain has a 'query' step around a 'mutation' step was
\* emitted, as a mutation
C15_Witness ==
    /\ Parsing
    /\ \E entry \in RouterEntries : \E i \in ProceduresOf(entry) :
          /\ Len(KindSteps(entry)) = 2
          /\ KindSteps(entry)[1] = "query"
          /\ KindSteps(entry)[2] = "mutation"
          /\ signatures[i].procedureType = "mutation"

\* the visited router-definition statements: the variable statements whose
\* first declarator is initialised by a call to createTRPCRouter
RouterStatements ==
    {s \in Range(visited) : /\ NodeAt(Tree, s).kind = "VariableStatement"
                            /\ DetectRouter(Tree, s, Undefined) # Undefined}

\* the walker is through with the node at s and with everything below it
Traversed(s) ==
    /\ s \in Range(visited)
    /\ stack # <<>> => (Head(stack) # s /\ ~IsAncestor(s, Head(stack)))

\* C16: once the walker has finished traversing a router-definition
\* statement, whatever the arguments of its createTRPCRouter call are, the
\* active router name is no longer the name of that router, and no function
\* signature extracted from a later statement has that name as parentName.
C16_RouterNameCleared ==
    Parsing => \A s \in RouterStatements :
        Traversed(s) =>
            /\ currentRouterName # DetectRouter(Tree, s, Undefined)
            /\ \A i \in 1..Len(signatures) :
                  (PreOrderBefore(s, signaturesAt[i]) /\ ~IsAncestor(s, signaturesAt[i]))
                      => signatures[i].parentName # DetectRouter(Tree, s, Undefined)

\* the visited callables that are an argument of a .input, .use, .query or
\* .mutation call of the chain of a router entry
ChainArguments ==
    {p \in VisitedCallables :
        /\ NodeAt(Tree, p).role = "arguments"
        /\ NodeAt(Tree, ParentPath(p)).kind = "CallExpression"
        /\ KidIn(NodeAt(Tree, ParentPath(p)), "expression").kind = "PropertyAccessExpression"
        /\ KidIn(NodeAt(Tree, ParentPath(p)), "expression").name
                \in {"input", "use", "query", "mutation"}
        /\ \E entry \in RouterEntries : IsAncestor(entry, p)}

\* C17: no callable that is an argument of a call of the procedure chain of
\* a router entry is emitted as a function signature.
C17_ChainArgumentsSkipped ==
    Parsing => \A p \in ChainArguments : \A i \in 1..Len(signatures) : signaturesAt[i] # p

\* a named function expression handed to .use and one handed to .query,
\* both inside a router object that yielded procedures, were visited
C17_Witness ==
    /\ Parsing
    /\ \E i \in 1..Len(signatures) : signatures[i].isTrpcProcedure
    /\ \E p \in ChainArguments : \E q \in ChainArguments :
          /\ NodeAt(Tree, p).kind = "FunctionExpression"
          /\ NodeAt(Tree, p).name # ""
          /\ KidIn(NodeAt(Tree, ParentPath(p)), "expression").name = "use"
          /\ NodeAt(Tree, q).kind = "FunctionExpression"
          /\ NodeAt(Tree, q).name # ""
          /\ KidIn(NodeAt(Tree, ParentPath(q)), "expression").name = "query"

\* the depths of the named class declarations that enclose the node at p
EnclosingClasses(p) ==
    {i \in 0..(Len(p) - 1) : /\ KindAt(Tree, p, i) = "ClassDeclaration"
                             /\ NodeAt(Tree, Prefix(p, i)).name # ""}

\* the names of the variables initialised by an object literal that encloses
\* the node at p
EnclosingObjectVariables(p) ==
    {NodeAt(Tree, Prefix(p, i)).name :
        i \in {j \in 0..(Len(p) - 2) : /\ KindAt(Tree, p, j) = "VariableDeclaration"
                                       /\ KindAt(Tree, p, j + 1) = "ObjectLiteralExpression"}}

\* the name of the nearest named class declaration that encloses the node at p
NearestClassName(p) ==
    NodeAt(Tree, Prefix(p, CHOOSE i \in EnclosingClasses(p) :
                                \A j \in EnclosingClasses(p) : j <= i)).name

\* C18: for every callable the walker visits, findParentName is the name of
\* the nearest enclosing named class declaration when there is one; it is
\* the name of a variable initialised by an enclosing object literal only
\* when there is no enclosing class; it is unset when there is neither.
C18_ClassBeforeObject ==
    Parsing => \A p \in VisitedCallables :
        /\ EnclosingClasses(p) # {} => findParentName(Tree, p) = NearestClassName(p)
        /\ EnclosingClasses(p) = {} =>
              findParentName(Tree, p) \in EnclosingObjectVariables(p) \cup {Undefined}
        /\ (EnclosingClasses(p) = {} /\ EnclosingObjectVariables(p) = {}) =>
              findParentName(Tree, p) = Undefined

\* the calls of a call chain, outermost call first
RECURSIVE ChainCalls(_)
ChainCalls(expr) ==
    IF expr.kind = "CallExpression" /\ KidIn(expr, "expression").kind = "PropertyAccessExpression"
    THEN <<expr>> \o ChainCalls(KidIn(KidIn(expr, "expression"), "expression"))
    ELSE <<>>

\* the 'input' calls of the chain of a router entry, outermost first
InputSteps(entry) ==
    SelectSeq(ChainCalls(KidIn(NodeAt(Tree, entry), "initializer")),
              LAMBDA call : KidIn(call, "expression").name = "input")

\* the first argument of a call, NoNode when the call has no argument
FirstArgument(call) == KidIn(call, "arguments")

\* the 'input' calls whose first argument is a simple identifier
NamedInputs(entry) ==
    SelectSeq(InputSteps(entry), LAMBDA call : FirstArgument(call).kind = "Identifier")

\* the 'input' calls whose first argument is something else
TextInputs(entry) ==
    SelectSeq(InputSteps(entry), LAMBDA call :
        Present(FirstArgument(call)) /\ FirstArgument(call).kind # "Identifier")

Last(s) == s[Len(s)]

\* '<router>.<name>: <kind>' of an emitted procedure
ProcedureHead(signature) ==
    signature.parentName \o "." \o signature.name \o ": " \o signature.procedureType

\* C19 as stated: for a procedure entry, hasInput is true exactly when the
\* chain has an 'input' step; the first argument of such a step is recorded
\* as inputSchemaName when it is a simple identifier and otherwise its
\* whitespace-collapsed text is recorded as inputSchemaText; fullSignature
\* is '<router>.<name>: <kind>', followed by ' (input: <name or text>)' when
\* hasInput is true.
C19_InputRecorded ==
    Parsing => \A entry \in RouterEntries : \A i \in ProceduresOf(entry) :
        /\ signatures[i].hasInput = (InputSteps(entry) # <<>>)
        /\ \A k \in 1..Len(InputSteps(entry)) :
              IF FirstArgument(InputSteps(entry)[k]).kind = "Identifier"
              THEN signatures[i].inputSchemaName # Undefined
              ELSE signatures[i].inputSchemaText # Undefined
        /\ signatures[i].fullSignature =
              ProcedureHead(signatures[i])
                \o (IF ~signatures[i].hasInput THEN ""
                    ELSE IF signatures[i].inputSchemaName # Undefined
                         THEN " (input: " \o signatures[i].inputSchemaName \o ")"
                    ELSE " (input: " \o signatures[i].inputSchemaText \o ")")

\* C19, amended: hasInput is true exactly when the chain has an 'input'
\* step.  inputSchemaName is the first argument of the innermost 'input'
\* step whose first argument is a simple identifier, and is unset without
\* such a step; inputSchemaText is the whitespace-collapsed text of the
\* first argument of the innermost 'input' step whose first argument is
\* something else, and is unset without such a step.  fullSignature is
\* '<router>.<name>: <kind>', followed when hasInput is true by
\* ' (input: <name>)' if a name is recorded, else by ' (input: <text>)' if a
\* text is recorded, else by ' (input)'.
C19_InputRecordedOrBare ==
    Parsing => \A entry \in RouterEntries : \A i \in ProceduresOf(entry) :
        /\ signatures[i].hasInput = (InputSteps(entry) # <<>>)
        /\ signatures[i].inputSchemaName =
              IF NamedInputs(entry) = <<>> THEN Undefined
              ELSE FirstArgument(Last(NamedInputs(entry))).name
        /\ signatures[i].inputSchemaText =
              IF TextInputs(entry) = <<>> THEN Undefined
              ELSE CollapseWhitespace(GetText(FirstArgument(Last(TextInputs(entry)))))
        /\ signatures[i].fullSignature =
              ProcedureHead(signatures[i])
                \o (IF InputSteps(entry) = <<>> THEN ""
                    ELSE IF NamedInputs(entry) # <<>>
                         THEN " (input: " \o signatures[i].inputSchemaName \o ")"
                    ELSE IF TextInputs(entry) # <<>>
                         THEN " (input: " \o signatures[i].inputSchemaText \o ")"
                    ELSE " (input)")

\* one router yielded an entry whose 'input' step has no argument, an entry
\* whose 'input' argument is an object written over several lines, and an
\* entry with two 'input' steps
C19_Witness ==
    /\ Parsing
    /\ \E entry \in RouterEntries : \E i \in ProceduresOf(entry) :
          /\ Len(InputSteps(entry)) = 1
          /\ ~Present(FirstArgument(InputSteps(entry)[1]))
          /\ signatures[i].fullSignature = "appRouter.bare: query (input)"
    /\ \E entry \in RouterEntries : \E i \in ProceduresOf(entry) :
          /\ Len(TextInputs(entry)) = 1
          /\ NamedInputs(entry) = <<>>
          /\ signatures[i].inputSchemaText = "z.object({ id: z.string() })"
          /\ GetText(FirstArgument(InputSteps(entry)[1])) # signatures[i].inputSchemaText
    /\ \E entry \in RouterEntries : \E i \in ProceduresOf(entry) :
          /\ Len(InputSteps(entry)) = 2
          /\ signatures[i].inputSchemaName = "Schema"
          /\ signatures[i].inputSchemaText # Undefined

\* the positions of the emitted signatures that are no procedures
GenericSignatures == {i \in 1..Len(signatures) : ~signatures[i].isTrpcProcedure}

\* the callable a generic signature was extracted from
CallableOf(i) == NodeAt(Tree, signaturesAt[i])

\* the callable is an arrow function with a single-expression body
ConciseArrow(node) == node.kind = "ArrowFunction" /\ KidIn(node, "body").kind # "Block"

\* the file being parsed is a view-template file
MarkupFile == files[fileIdx].ext \in {".tsx", ".jsx"}

StartsUppercase(name) ==
    name # "" /\ \E k \in 1..Len(UpperLetters) : CharAt(UpperLetters, k) = CharAt(name, 1)

\* the callable has a block body and no return annotation
PlainBlockBodied(node) ==
    KidIn(node, "body").kind = "Block" /\ ~Present(KidIn(node, "type"))

\* C21: in a view-template file, every emitted block-bodied callable
\* without return annotation whose resolved name starts with an uppercase
\* letter has returnType 'React.JSX.Element', whether the name comes from a
\* function declaration, a variable binding, a property key or a method name.
C21_UppercaseNameIsComponent ==
    (Parsing /\ MarkupFile) => \A i \in GenericSignatures :
        (PlainBlockBodied(CallableOf(i)) /\ StartsUppercase(signatures[i].name))
            => signatures[i].returnType = "React.JSX.Element"

\* the statement is a return of a markup element, parenthesized or not
MarkupReturn(statement) ==
    /\ statement.kind = "ReturnStatement"
    /\ \/ KidIn(statement, "expression").kind \in JsxKinds
       \/ /\ KidIn(statement, "expression").kind = "ParenthesizedExpression"
          /\ KidIn(KidIn(statement, "expression"), "expression").kind \in JsxKinds

\* one of the immediate statements of the callable's block body is a
\* return of markup
TopLevelMarkupReturn(node) ==
    \E k \in 1..Len(KidIn(node, "body").kids) : MarkupReturn(KidIn(node, "body").kids[k])

\* the name of the variable declaration the node at p is the initializer
\* of, "" when it is not one
BindingName(p) ==
    IF p # <<>> /\ NodeAt(Tree, ParentPath(p)).kind = "VariableDeclaration"
    THEN NodeAt(Tree, ParentPath(p)).name
    ELSE ""

\* C22: in a view-template file, an emitted block-bodied callable without
\* return annotation that is lowercase-named (neither its name nor the name
\* of the variable it is bound to starts with an uppercase letter) has
\* returnType 'void' unless one of the immediate statements of its body is a
\* return of markup; returns of markup in nested blocks, functions and
\* callbacks do not count.
C22_TopLevelReturnsOnly ==
    (Parsing /\ MarkupFile) => \A i \in GenericSignatures :
        (/\ PlainBlockBodied(CallableOf(i))
         /\ ~StartsUppercase(signatures[i].name)
         /\ ~StartsUppercase(BindingName(signaturesAt[i])))
            => (signatures[i].returnType = "React.JSX.Element")
                    = TopLevelMarkupReturn(CallableOf(i))

\* a lowercase-named callable that returns markup only inside a nested
\* block and inside a callback was emitted with 'void', and one that
\* returns it at the top level of its body with 'React.JSX.Element'
C22_Witness ==
    /\ Parsing
    /\ MarkupFile
    /\ \E i \in GenericSignatures :
          /\ PlainBlockBodied(CallableOf(i))
          /\ ~StartsUppercase(signatures[i].name)
          /\ ~TopLevelMarkupReturn(CallableOf(i))
          /\ ReturnsMarkupBelow(CallableOf(i))
          /\ \E k \in 1..Len(KidIn(CallableOf(i), "body").kids) :
                KidIn(CallableOf(i), "body").kids[k].kind = "IfStatement"
          /\ signatures[i].returnType = "void"
    /\ \E i \in GenericSignatures :
          /\ PlainBlockBodied(CallableOf(i))
          /\ ~StartsUppercase(signatures[i].name)
          /\ TopLevelMarkupReturn(CallableOf(i))
          /\ signatures[i].returnType = "React.JSX.Element"

\* the return type a class signature is to show for a method
ShownReturnType(method) ==
    IF Present(KidIn(method, "type"))
    THEN simplifyType(KidIn(method, "type"), DEFAULT_TYPE_DEPTH - 1)
    ELSE IF "async" \in method.mods THEN "Promise<unknown>"
    ELSE "void"

\* the text of a method in a class signature, up to the end of its entry
MethodEntry(method, closing) ==
    method.name \o "(" \o ParameterList(method, DEFAULT_TYPE_DEPTH) \o "): "
        \o ShownReturnType(method) \o closing

\* C24: in the type signature of a class, a method with a return annotation
\* shows the rendered annotation, a method without one shows
\* 'Promise<unknown>' when it is async and 'void' otherwise, whether it is
\* static or not and whatever its body holds.
C24_MethodReturnDefault ==
    Parsed => \A class \in NamedClasses : \A i \in 1..Len(types) :
        typesAt[i] = class =>
            \A k \in MethodsOf(class) :
                \/ Includes(types[i].fullSignature,
                            MethodEntry(NodeAt(Tree, class).kids[k], "; "))
                \/ EndsWith(types[i].fullSignature,
                            MethodEntry(NodeAt(Tree, class).kids[k], " }"))

\* the signature of a class was emitted that has an annotated method, an
\* async method without annotation, an async method with one, and a static
\* method without annotation whose body returns a value
C24_Witness ==
    /\ Parsed
    /\ \E class \in NamedClasses : \E i \in 1..Len(types) :
          /\ typesAt[i] = class
          /\ Includes(types[i].fullSignature, "load(): Promise<unknown>; ")
          /\ Includes(types[i].fullSignature, "static make(): void; ")
          /\ Includes(types[i].fullSignature, "static send(): Promise<A>; ")
          /\ Includes(types[i].fullSignature, "get(id: string): A | undefined; ")
          /\ \E k \in MethodsOf(class) :
                /\ "static" \in NodeAt(Tree, class).kids[k].mods
                /\ KidIn(NodeAt(Tree, class).kids[k], "body").kids # <<>>

\* the name of the variable whose initializer is the createTRPCRouter call
\* that the object literal at obj is handed to, Undefined when that call is
\* not the initializer of a variable
BoundRouterName(obj) ==
    LET call == ParentPath(obj)
        declaration == ParentPath(call)
    IN  IF /\ Len(obj) >= 2
           /\ NodeAt(Tree, call).role = "initializer"
           /\ NodeAt(Tree, declaration).kind = "VariableDeclaration"
           /\ HasIdentifierName(NodeAt(Tree, declaration))
        THEN NodeAt(Tree, declaration).name
        ELSE Undefined

\* the procedure signatures emitted so far
Procedures == {i \in 1..Len(signatures) : signatures[i].isTrpcProcedure}

\* C26: every procedure signature is emitted at most once, and its
\* parentName is the name of the variable bound to the very createTRPCRouter
\* call whose object-literal argument directly contains the procedure's
\* property, also when other router calls of the file are not bound to a
\* variable or are nested in another call.
C26_ProcedureUnderItsRouter ==
    Parsing => \A i \in Procedures :
        /\ signatures[i].parentName = BoundRouterName(signaturesAt[i])
        /\ \A j \in Procedures :
              (signaturesAt[j] = signaturesAt[i] /\ signatures[j].name = signatures[i].name)
                  => j = i

\* C27: in every emitted procedure signature at most one of inputSchemaName
\* and inputSchemaText is set, however many 'input' steps the chain has.
C27_OneInputSchemaField ==
    Parsing => \A i \in Procedures :
        signatures[i].inputSchemaName = Undefined \/ signatures[i].inputSchemaText = Undefined

\* the visited arrow functions and function expressions that are the
\* initializer of an identifier-named variable of an exported variable
\* statement
ExportedInitializers ==
    {p \in Range(visited) :
        /\ Len(p) = 4
        /\ NodeAt(Tree, p).kind \in {"ArrowFunction", "FunctionExpression"}
        /\ NodeAt(Tree, p).role = "initializer"
        /\ KindAt(Tree, p, 3) = "VariableDeclaration"
        /\ HasIdentifierName(NodeAt(Tree, ParentPath(p)))
        /\ KindAt(Tree, p, 1) = "VariableStatement"
        /\ "export" \in NodeAt(Tree, Prefix(p, 1)).mods}

\* C28: every callable that is the direct initializer of a variable
\* declaration in an exported variable statement yields a function signature
\* named after the variable with isExported = true, be it an arrow function,
\* an anonymous function expression or a named function expression.
C28_ExportedBindingSignature ==
    Parsing => \A p \in ExportedInitializers :
        \E i \in 1..Len(signatures) :
            /\ signaturesAt[i] = p
            /\ signatures[i].name = NodeAt(Tree, ParentPath(p)).name
            /\ signatures[i].isExported

\* the node at p lies inside the arguments of a createTRPCRouter call
InsideRouterCall(p) ==
    \E i \in 0..(Len(p) - 1) :
        /\ KindAt(Tree, p, i) = "CallExpression"
        /\ GetText(KidIn(NodeAt(Tree, Prefix(p, i)), "expression")) = "createTRPCRouter"
        /\ NodeAt(Tree, Prefix(p, i + 1)).role = "arguments"

\* the visited callables that could be named, that the class-method check
\* let through and that yielded no signature all the same: the ones the
\* procedure-chain check withheld
WithheldByChainCheck ==
    {p \in VisitedCallables :
        /\ Nameable(p)
        /\ ~(NodeAt(Tree, p).kind = "MethodDeclaration" /\ isInsideClassDeclaration(Tree, p))
        /\ \A i \in 1..Len(signatures) : signaturesAt[i] # p}

\* C29: a named or variable-bound callable is withheld from generic
\* extraction by the procedure-chain check only if it lies inside the
\* arguments of a createTRPCRouter call; so in a file without router
\* definition no callable is withheld by that check.
C29_WithheldOnlyInRouter ==
    Parsing => \A p \in WithheldByChainCheck : InsideRouterCall(p)

\* the visited method declarations that the class-method check of visit
\* (parser.ts:531) keeps off the functions list
WithheldAsClassMethod ==
    {p \in VisitedCallables :
        /\ NodeAt(Tree, p).kind = "MethodDeclaration"
        /\ isInsideClassDeclaration(Tree, p)}

\* a class type signature that lists the method at p was emitted for the
\* class declaration the method is a direct member of
ListedInItsClass(p) ==
    /\ NodeAt(Tree, ParentPath(p)).kind = "ClassDeclaration"
    /\ \E i \in 1..Len(types) :
          /\ typesAt[i] = ParentPath(p)
          /\ types[i].kind = "class"
          /\ Includes(types[i].fullSignature, NodeAt(Tree, p).name \o "(")

\* the visited identifier-named methods of object literals outside router
\* definitions
ObjectMethods ==
    {p \in VisitedCallables :
        /\ NodeAt(Tree, p).kind = "MethodDeclaration"
        /\ IdentifierNamed(NodeAt(Tree, p))
        /\ NodeAt(Tree, ParentPath(p)).kind = "ObjectLiteralExpression"
        /\ ~isInsideTrpcProcedureChain(Tree, p)}

\* C30: a method declaration is withheld from the functions list by
\* double-count avoidance only if it is a direct member of a class
\* declaration for which a class type signature listing it was emitted; a
\* method of an object literal yields a function signature, also when the
\* object literal sits inside the body of a class method.
C30_WithheldOnlyIfListed ==
    Parsing =>
        /\ \A p \in WithheldAsClassMethod : ListedInItsClass(p)
        /\ \A p \in ObjectMethods : \E i \in 1..Len(signatures) : signaturesAt[i] = p

(***************************************************************************)
(* Properties of simplifyType, checked under TypeSpec                      *)
(***************************************************************************)
\* tout is the rendering of tnode at depth 0
RenderedAtZero == tout # Undefined /\ tprev = Undefined /\ tdepth = 0

\* the placeholder a collapsed node of the given kind is rendered as
Placeholder(kind) ==
    CASE kind = "UnionType"        -> "..."
      [] kind = "IntersectionType" -> "..."
      [] kind = "TypeLiteral"      -> "{ ... }"
      [] kind = "TupleType"        -> "[...]"

Collapsing == {"UnionType", "IntersectionType", "TypeLiteral", "TupleType"}

\* the unions, intersections, inline object types and tuples a type
\* expression is, or holds under array, parenthesized and indexed-access
\* wrappers only
RECURSIVE ReachedThroughWrappers(_)
ReachedThroughWrappers(node) ==
    IF node.kind \in Collapsing THEN {node}
    ELSE IF node.kind \in {"ArrayType", "ParenthesizedType", "IndexedAccessType"}
         THEN UNION {ReachedThroughWrappers(node.kids[k]) : k \in 1..Len(node.kids)}
    ELSE {}

HasSeparator(s) ==
    \/ Includes(s, " | ")
    \/ Includes(s, " & ")
    \/ Includes(s, "; ")
    \/ Includes(s, ", ")

\* C7: at depth 0 a union, intersection, inline object type or tuple is
\* rendered as the fixed placeholder of its shape; when such a node is what a
\* chain of array, parenthesized and indexed-access wrappers holds, the
\* rendering holds its placeholder; in both cases the rendering has no
\* ' | ', ' & ', '; ' or ', ' separator.
C7_CollapsedAtZero ==
    RenderedAtZero =>
        /\ tnode.kind \in Collapsing => tout = Placeholder(tnode.kind)
        /\ \A reached \in ReachedThroughWrappers(tnode) :
              /\ Includes(tout, Placeholder(reached.kind))
              /\ ~HasSeparator(tout)

\* a tuple indexed by string, as in [A, A][string], is rendered at depth 0
C7_Witness ==
    /\ RenderedAtZero
    /\ tnode = IndexedAccessType(TupleType(<<RefA, RefA>>), KeywordString)
    /\ tout = "[...][string]"

\* the positions at which a "..." starts in s
Ellipses(s) == {i \in 1..(Len(s) - 2) : SubSeq(s, i, i + 2) = "..."}

\* the stretches of s between its "..."s, in order: n + 1 stretches for n
\* "..."s
Stretches(s) ==
    LET at == Ellipses(s)
        \* the k-th smallest position
        nth(k) == CHOOSE i \in at : Cardinality({j \in at : j < i}) = k - 1
        n == Cardinality(at)
    IN  [k \in 1..(n + 1) |->
            SubSeq(s, IF k = 1 THEN 1 ELSE nth(k - 1) + 3,
                      IF k = n + 1 THEN Len(s) ELSE nth(k) - 1)]

\* the first position from which on piece occurs in s at or after from, 0
\* when there is none
Find(s, piece, from) ==
    LET hits == {i \in from..(Len(s) - Len(piece) + 1) : SubSeq(s, i, i + Len(piece) - 1) = piece}
    IN  IF hits = {} THEN 0 ELSE CHOOSE i \in hits : \A j \in hits : i <= j

\* the stretches k.. of a pattern are found in s one after the other from
\* position from on, the last one at the very end of s
RECURSIVE FoundInOrder(_, _, _, _)
FoundInOrder(s, stretches, k, from) ==
    IF k = Len(stretches)
    THEN Len(s) - Len(stretches[k]) + 1 >= from /\ EndsWith(s, stretches[k])
    ELSE LET at == Find(s, stretches[k], from)
         IN  at # 0 /\ FoundInOrder(s, stretches, k + 1, at + Len(stretches[k]))

\* deeper is shallower with each "..." replaced by some text, everything
\* else kept
Expands(shallower, deeper) ==
    LET stretches == Stretches(shallower)
    IN  IF Len(stretches) = 1 THEN deeper = shallower
        ELSE /\ StartsWith(deeper, stretches[1])
             /\ FoundInOrder(deeper, stretches, 2, Len(stretches[1]) + 1)

\* C8: for every type expression and every depth d >= 0, the rendering at
\* depth d + 1 is the rendering at depth d with placeholders expanded: all
\* text outside the "..." of the depth-d rendering is kept as it is.
C8_DepthMonotone ==
    (tprev # Undefined /\ tdepth >= 1) => Expands(tprev, tout)

\* the kinds of type node simplifyType has a case for
StructuralKinds ==
    {"TypeReference", "ArrayType", "UnionType", "IntersectionType", "TypeLiteral",
     "FunctionType", "TupleType", "ParenthesizedType", "ConditionalType", "MappedType",
     "IndexedAccessType"}

\* tout is the rendering of a type node of a kind simplifyType has no case for
RenderedFallback == tout # Undefined /\ Present(tnode) /\ tnode.kind \notin StructuralKinds

\* the source text of tnode with every run of whitespace turned into one blank
CollapsedText == CollapseWhitespace(GetText(tnode))

\* the collapsed text, cut after 60 characters and marked when it is longer
RawRendering ==
    IF Len(CollapsedText) <= 60 THEN CollapsedText
    ELSE SubSeq(CollapsedText, 1, 60) \o "..."

\* C12 as stated: a type node of a kind simplifyType does not handle
\* structurally is rendered as its whitespace-collapsed raw text when that
\* text has at most 60 characters and otherwise as its first 60 characters
\* followed by "...", so the result never exceeds 63 characters.
C12_FallbackRaw ==
    RenderedFallback => (tout = RawRendering /\ Len(tout) <= 63)

\* C12, amended: the raw rendering is the result when the depth budget is
\* not negative; with a negative budget the result is "...".  Either way the
\* result never exceeds 63 characters.
C12_FallbackRawWithinBudget ==
    RenderedFallback =>
        /\ tdepth >= 0 => tout = RawRendering
        /\ tdepth < 0 => tout = "..."
        /\ Len(tout) <= 63

\* a text of 66 characters that collapses to 61 was rendered with a budget
\* left: 60 characters and the mark
C12_Witness ==
    /\ RenderedFallback
    /\ tdepth >= 0
    /\ Len(GetText(tnode)) = 66
    /\ Len(CollapsedText) = 61
    /\ Len(tout) = 63
    /\ tout = SubSeq(CollapsedText, 1, 60) \o "..."

\* tout is the rendering of a mapped type with a depth budget of 1 or more
RenderedMapped == tout # Undefined /\ tnode.kind = "MappedType" /\ tdepth >= 1

\* C23: a mapped type rendered at depth 1 or more is its
\* whitespace-collapsed raw text cut after 80 characters, followed by '...'
\* if and only if the collapsed text is longer than 80 characters.
C23_MappedSuffixIffCut ==
    RenderedMapped =>
        tout = SubSeq(CollapsedText, 1, Min(80, Len(CollapsedText)))
                  \o (IF Len(CollapsedText) > 80 THEN "..." ELSE "")

(***************************************************************************)
(* Properties of getCodeFiles, checked under ScanSpec                      *)
(***************************************************************************)
\* the entries normalised so far, each with the pattern it became
Normalised == 1..Len(normalizedBlacklist)

FilePattern(entry) == "**/" \o entry

FolderPattern(entry) == "**/" \o entry \o "**"

\* C25: every exclusion entry is normalised thus: an entry with a wildcard
\* passes unchanged, every other entry with a dot becomes the file-anywhere
\* pattern, every other entry without a dot the folder-anywhere pattern.
C25_NormalisedByDot ==
    \A k \in Normalised :
        normalizedBlacklist[k] =
            IF Includes(blacklist[k], "*") THEN blacklist[k]
            ELSE IF Includes(blacklist[k], ".") THEN FilePattern(blacklist[k])
            ELSE FolderPattern(blacklist[k])

\* C25 (amended): an entry with a wildcard passes unchanged; every other
\* entry that ends with a slash or has no dot becomes the folder-anywhere
\* pattern; every other entry (a dot, no trailing slash) becomes the
\* file-anywhere pattern.
C25_NormalisedBySlashOrDot ==
    \A k \in Normalised :
        normalizedBlacklist[k] =
            IF Includes(blacklist[k], "*") THEN blacklist[k]
            ELSE IF EndsWith(blacklist[k], "/") \/ ~Includes(blacklist[k], ".")
                 THEN FolderPattern(blacklist[k])
            ELSE FilePattern(blacklist[k])

\* an entry with a dot and a trailing slash, one with a dot only and one
\* with a wildcard have been normalised and merged
C25_Witness ==
    /\ ignorePatterns # <<>>
    /\ \E k \in Normalised :
          /\ blacklist[k] = "my.dir/"
          /\ normalizedBlacklist[k] = "**/my.dir/**"
    /\ \E k \in Normalised :
          \/ blacklist[k] = "config.json" /\ normalizedBlacklist[k] = "**/config.json"
          \/ blacklist[k] = "*.test.ts" /\ normalizedBlacklist[k] = "*.test.ts"
          \/ blacklist[k] = "dist" /\ normalizedBlacklist[k] = "**/dist**"

====
